---- MODULE Spec2Model ----
(***************************************************************************)
(* A model of the domain classifier's escalation pipeline:                 *)
(*   ClassifierService.classify_domain  (backend/app/services)             *)
(*   HttpFetcher.fetch_domain           (Stage 1)                          *)
(*   PlaywrightFetcher.fetch_domain / fetch_with_retries (Stage 2)         *)
(*   FirecrawlFetcher.fetch_domain      (Stage 3)                          *)
(*   FeatureExtractor.calculate_text_score, Scorer.classify (Stage 4)      *)
(* One classify_domain call is a sequential process; every `await` of the  *)
(* source is a point where the model takes the answer of the outside world *)
(* (a web server, the browser, the scrape API, the vision API) from a      *)
(* small set.                                                              *)
(***************************************************************************)
EXTENDS Integers, Sequences, FiniteSets, TLC

VARIABLES
    pc,              \* where the classify_domain call stands
    cfg,             \* the service's configuration after __init__
    browser,         \* ClassifierService._browser: "None" or "launched"
    calls,           \* classify_domain calls started on this service
    result,          \* classify_domain's result dict
    http_i,          \* HttpFetcher.fetch_domain: index into urls_to_try
    http_result,     \* HttpFetcher.fetch_domain's result dict
    attempt,         \* fetch_with_retries: the loop variable
    best_result,     \* fetch_with_retries: best_result
    pw_result,       \* classify_domain's pw_result
    fc_result,       \* classify_domain's fc_result
    features,        \* classify_domain's features (NoFeatures for None)
    stage_used,      \* classify_domain's stage_used ("None" for None)
    text_score_data, \* the text score handed to Scorer.classify
    inflight,        \* the stages whose call has not returned yet
    trace,           \* per call: what was invoked, in order, and how often
    raised,          \* per call: the exception caught by classify_domain
    scorer,          \* one Scorer.classify call on inputs of its own
    textscore,        \* one text score computed from counts of its own
    httpfetch,       \* one HttpFetcher.fetch_domain call on responses of its own
    pwfetch,         \* the contexts and pages of PlaywrightFetcher.fetch_domain calls
    worker,          \* the background Worker, its run and its records
    batch,           \* process_batch, its StreamingWriter and the output file
    popup,           \* one PopupHandler.dismiss_all call
    naming,          \* the domain string of one classify_domain call
    capture,         \* the steps of one browser attempt after its navigation
    launcher        \* concurrent classify_domain calls at _ensure_browser, and close

vars == <<pc, cfg, browser, calls, result, http_i, http_result, attempt,
          best_result, pw_result, fc_result, features, stage_used,
          text_score_data, inflight, trace, raised, scorer, textscore,
          httpfetch, pwfetch, worker, batch, popup, naming, capture, launcher>>

\* the state of the service and of its classify_domain calls
pipeline == <<pc, cfg, browser, calls, result, http_i, http_result, attempt,
              best_result, pw_result, fc_result, features, stage_used,
              text_score_data, inflight, trace, raised>>

\* the state of the components that are also run on their own
units == <<scorer, textscore, httpfetch, pwfetch, worker, batch, popup, naming,
         capture, launcher>>

OutsideScorer == <<pipeline, textscore, httpfetch, pwfetch, worker, batch, popup,
                    naming, capture, launcher>>

OutsideTextScore == <<pipeline, scorer, httpfetch, pwfetch, worker, batch, popup, naming,
                       capture, launcher>>

OutsideHttpFetch == <<pipeline, scorer, textscore, pwfetch, worker, batch, popup, naming,
                       capture, launcher>>

OutsidePwFetch == <<pipeline, scorer, textscore, httpfetch, worker, batch, popup, naming,
                     capture, launcher>>

OutsideWorker == <<pipeline, scorer, textscore, httpfetch, pwfetch, batch, popup,
                    naming, capture, launcher>>

OutsideBatch == <<pipeline, scorer, textscore, httpfetch, pwfetch, worker, popup,
                   naming, capture, launcher>>

OutsidePopup == <<pipeline, scorer, textscore, httpfetch, pwfetch, worker, batch,
                   naming, capture, launcher>>

OutsideNaming == <<pipeline, scorer, textscore, httpfetch, pwfetch, worker, batch,
                    popup, capture, launcher>>

OutsideCapture == <<pipeline, scorer, textscore, httpfetch, pwfetch, worker, batch,
                     popup, naming, launcher>>

OutsideLauncher == <<pipeline, scorer, textscore, httpfetch, pwfetch, worker, batch,
                      popup, naming, capture>>

----------------------------------------------------------------------------
(* Bounds of the model *)

\* classify_domain calls made on one service
MaxCalls == 2

----------------------------------------------------------------------------
(* Python values *)

Min(a, b) == IF a <= b THEN a ELSE b

Max(a, b) == IF a >= b THEN a ELSE b

\* A Python string is modelled by the text it was cut from and its length;
\* None is a value of its own.
None == [isNone |-> TRUE, text |-> "", len |-> 0]

Str(t, l) == [isNone |-> FALSE, text |-> t, len |-> l]

\* s[:n]
Slice(s, n) == [s EXCEPT !.len = Min(s.len, n)]

\* Python truthiness of an optional string: neither None nor ''
Truthy(s) == ~s.isNone /\ s.len > 0

\* a + b
Concat(a, b) == Str(a.text \o b.text, a.len + b.len)

\* list(dict.fromkeys(xs)) / [...new Set(xs)]: duplicates dropped, first
\* occurrences kept in order
RECURSIVE Dedup(_)
Dedup(xs) ==
    IF xs = <<>> THEN <<>>
    ELSE LET init == Dedup(SubSeq(xs, 1, Len(xs) - 1))
             last == xs[Len(xs)]
         IN IF \E i \in 1..Len(init) : init[i] = last
            THEN init ELSE Append(init, last)

\* xs[:n]
Take(xs, n) == SubSeq(xs, 1, Min(Len(xs), n))

\* the concatenation of a sequence of sequences
RECURSIVE Flatten(_)
Flatten(xss) == IF xss = <<>> THEN <<>> ELSE Head(xss) \o Flatten(Tail(xss))

Range(xs) == {xs[i] : i \in 1..Len(xs)}

\* how many entries of xs are equal to x
Count(xs, x) == Cardinality({i \in 1..Len(xs) : xs[i] = x})

\* the exception messages str(e) the outside world raises with: an empty
\* one, a short one and one longer than every truncation of the program
ExcMsgs == {Str("", 0), Str("net::ERR_FAILED", 15), Str("long traceback", 600)}

----------------------------------------------------------------------------
(* The pages a site can answer with.  A page is its nav-like regions (tag, *)
(* role attribute, the texts of its links, stripped and lower-cased) and   *)
(* its h1-h3 texts.                                                        *)

Region(tag, role, links) == [tag |-> tag, role |-> role, links |-> links]

Page(regions, headings) == [regions |-> regions, headings |-> headings]

EmptyPage == Page(<<>>, <<>>)

\* three navigation links: the scenario of the specification
SmallPage == Page(<<Region("nav", "", <<"bras", "lingerie", "shop">>)>>, <<"sale">>)

\* the same three links in a <nav role="navigation">
RolePage == Page(<<Region("nav", "navigation", <<"bras", "lingerie", "shop">>)>>, <<>>)

\* five distinct links, two of them bodywear terms
MixedPage ==
    Page(<<Region("header", "", <<"bras", "lingerie", "shop", "sale", "new">>)>>,
         <<"welcome", "lingerie", "offers">>)

\* five distinct links, generalist terms only
GeneralPage ==
    Page(<<Region("nav", "", <<"shoes", "bags", "denim", "kids", "home", "on">>)>>, <<>>)

\* bodywear terms only
BodywearPage ==
    Page(<<Region("nav", "", <<"bras", "lingerie", "briefs", "swimwear", "pyjamas", "bras">>)>>,
         <<"lingerie">>)

Pages == {EmptyPage, SmallPage, RolePage, MixedPage, GeneralPage, BodywearPage}

----------------------------------------------------------------------------
(* Configuration: settings.yaml, dictionaries.json and the environment     *)

\* scores, weights and thresholds are counted in hundredths

\* config['scoring'] and config['vision'] as the sources read them
scoring_config ==
    [stage_b_trigger_range |-> <<40, 75>>,
     stage_b_weights |-> [text |-> 50, vision |-> 50],
     thresholds |-> [pure_bodywear |-> 70, bodywear_leaning |-> 45, generalist |-> 30],
     generalist_penalty_weight |-> 50]

\* dictionaries.json: term lists keyed by language
bodywear_terms ==
    <<(*en*) <<"bras", "lingerie", "briefs", "swimwear", "pyjamas">>,
      (*fr*) <<"culottes">> >>

generalist_terms ==
    <<(*en*) <<"shoes", "bags", "denim", "kids", "home">>,
      (*fr*) <<"chaussures">> >>

\* what __init__ can find: a vision flag, the two API keys, and whether the
\* YAML carries scoring.stage_a_weights
Environments ==
    [vision_enabled : BOOLEAN, openai_api_key : BOOLEAN,
     firecrawl_api_key : BOOLEAN, stage_a_weights : BOOLEAN]

\* ClassifierService.__init__: vision is switched off without an OpenAI key;
\* the fallback fetcher exists only with a Firecrawl key
ClassifierService_init(env) ==
    [vision_enabled |-> env.vision_enabled /\ env.openai_api_key,
     openai_client |-> env.openai_api_key,
     firecrawl_fetcher |-> env.firecrawl_api_key,
     stage_a_weights |-> env.stage_a_weights]

----------------------------------------------------------------------------
(* Stage 1: HttpFetcher.fetch_domain                                       *)

\* lines 76-83: the links of the first 3 of (nav and header elements, then
\* the elements with role=navigation), 50 links each, 2 < len < 100
HttpNavText(page) ==
    LET byTag == SelectSeq(page.regions, LAMBDA r : r.tag \in {"nav", "header"})
        byRole == SelectSeq(page.regions, LAMBDA r : r.role = "navigation")
        nav_elements == Take(byTag \o byRole, 3)
        links == Flatten([i \in 1..Len(nav_elements) |-> Take(nav_elements[i].links, 50)])
    IN SelectSeq(links, LAMBDA t : 2 < Len(t) /\ Len(t) < 100)

\* lines 85-90: the first 10 headings, len > 3
HttpHeroText(page) ==
    SelectSeq(Take(page.headings, 10), LAMBDA t : Len(t) > 3)

\* lines 43-53
HttpInitialResult ==
    [success |-> FALSE, http_status |-> 0, nav_text |-> <<>>,
     hero_text |-> <<>>, error |-> None]

\* what one session.get can come to: a response, a timeout, another error
HttpResponses ==
    {[kind |-> "response", status |-> 200, page |-> p, msg |-> None] : p \in Pages}
    \cup {[kind |-> "response", status |-> 403, page |-> EmptyPage, msg |-> None]}
    \cup {[kind |-> "timeout", status |-> 0, page |-> EmptyPage, msg |-> None]}
    \cup {[kind |-> "raise", status |-> 0, page |-> EmptyPage,
           msg |-> Str("Cannot connect to host", 22)]}

\* line 105: f"Timeout: {url}"
TimeoutMsg(i) ==
    IF i = 1 THEN Str("Timeout: https://domain", 23) ELSE Str("Timeout: http://domain", 22)

\* lines 60-108: one pass of the loop over urls_to_try, for url number i
HttpTryUrl(res, resp, i) ==
    CASE resp.kind = "response" /\ resp.status # 200 ->
            [res EXCEPT !.http_status = resp.status]
      [] resp.kind = "response" /\ resp.status = 200 ->
            [res EXCEPT !.http_status = 200,
                        !.nav_text = res.nav_text \o HttpNavText(resp.page),
                        !.hero_text = res.hero_text \o HttpHeroText(resp.page),
                        !.success = TRUE]
      [] resp.kind = "timeout" ->
            [res EXCEPT !.error = TimeoutMsg(i)]
      [] resp.kind = "body_raise" ->
            \* lines 63-64, then response.text() or the parser raises
            [res EXCEPT !.http_status = resp.status, !.error = resp.msg]
      [] OTHER ->
            [res EXCEPT !.error = resp.msg]

\* line 56
urls_to_try == <<"https://domain", "http://domain">>

\* a loop that goes on to the next url after a success
HttpLoopEnds_TriesBoth(res, i) == i >= Len(urls_to_try)

\* lines 60 and 101: the loop ends with a success or with the last url
HttpLoopEnds(res, i) == res.success \/ i >= Len(urls_to_try)

\* no HttpFetcher.fetch_domain call of its own is running
HttpFetchIdle == [pc |-> "idle", i |-> 1, result |-> HttpInitialResult, log |-> <<>>]

----------------------------------------------------------------------------
(* FeatureExtractor.calculate_text_score                                   *)

\* a score is a fraction n/d, d > 0
Frac(n, d) == [n |-> n, d |-> d]

FracLeq(a, b) == a.n * b.d <= b.n * a.d

\* a hundredths value as a fraction
Pct(h) == Frac(h, 100)

\* lines 347-376: whole-word matches of every term of every language
MatchCount(dict, texts) ==
    LET terms == Flatten(dict)
    IN Cardinality({m \in (1..Len(terms)) \X (1..Len(texts)) : texts[m[2]] = terms[m[1]]})

\* the score without the max(0, ...) of line 392
TextScoreOf_NoClamp(b, g, p) ==
    Frac(100 * b - p * g, 100 * (b + g + 1))

\* the score with the generalist penalty added instead of subtracted
TextScoreOf_PenaltyAdded(b, g, p) ==
    Frac(Max(0, 100 * b + p * g), 100 * (b + g + 1))

\* lines 381-392 for bodywear_count b, generalist_count g and a penalty
\* weight of p hundredths: max(0, b/total - (g/total)*p)
TextScoreOf(b, g, p) ==
    Frac(Max(0, 100 * b - p * g), 100 * (b + g + 1))

\* lines 337-407; cta_text is empty in every features dict the service builds
calculate_text_score(feats) ==
    LET texts == feats.nav_text \o feats.hero_text \o feats.cta_text
        bodywear_count == MatchCount(bodywear_terms, texts)
        generalist_count == MatchCount(generalist_terms, texts)
        penalty_weight == scoring_config.generalist_penalty_weight
    IN [text_score |-> TextScoreOf(bodywear_count, generalist_count, penalty_weight),
        bodywear_count |-> bodywear_count,
        generalist_count |-> generalist_count]

\* line 379: config['scoring']['stage_a_weights'] of a YAML without it
KeyErrorMsg == Str("'stage_a_weights'", 17)

----------------------------------------------------------------------------
(* Stage 2: PlaywrightFetcher                                              *)

\* fetch_with_retries' default max_retries
max_retries == 3

\* lines 209-245: the links of every nav, then every header, then every
\* role=navigation element, 2 < len < 100, deduplicated
PwNavText(page) ==
    LET bySel(keep(_)) ==
            LET els == SelectSeq(page.regions, keep)
            IN Flatten([i \in 1..Len(els) |-> els[i].links])
        links == bySel(LAMBDA r : r.tag = "nav") \o bySel(LAMBDA r : r.tag = "header")
                 \o bySel(LAMBDA r : r.role = "navigation")
    IN Dedup(SelectSeq(links, LAMBDA t : 2 < Len(t) /\ Len(t) < 100))

PwHeroText(page) == Dedup(SelectSeq(page.headings, LAMBDA t : Len(t) > 3))

\* line 51
wait_strategies == <<"domcontentloaded", "load", "networkidle">>

\* a fetch_domain that waits for the same condition on every attempt
wait_until_FirstOnly(att) == wait_strategies[1]

\* line 52: wait_strategies[attempt % len(wait_strategies)]
wait_until(att) == wait_strategies[(att % Len(wait_strategies)) + 1]

\* lines 36-48
PwInitialResult(att) ==
    [success |-> FALSE, http_status |-> 0, nav_text |-> <<>>, hero_text |-> <<>>,
     screenshot_bytes |-> "None", attempt |-> att, error |-> None]

\* What the browser and the site do during one fetch_domain:
\*   ctx    new_context / new_page: "ok" or "raise" (with msg)
\*   https  page.goto(https://..): a status, 0 for no response object,
\*          -1 for an exception
\*   http   page.goto(http://..), tried after an https exception: a status,
\*          0, or -1 for an exception (with msg)
\*   shot   whether page.screenshot succeeds
\*   js     whether the in-page extraction script succeeds
\*   page   the rendered page
PwEnv(ctx, https, http, shot, js, page, msg) ==
    [ctx |-> ctx, https |-> https, http |-> http, shot |-> shot, js |-> js,
     page |-> page, msg |-> msg]

PwEnvs ==
    {PwEnv("raise", 0, 0, FALSE, FALSE, EmptyPage, m) : m \in ExcMsgs}
    \cup {PwEnv("ok", st, 0, shot, FALSE, EmptyPage, None) :
            st \in {403, 503}, shot \in BOOLEAN}
    \cup {PwEnv("ok", -1, -1, FALSE, FALSE, EmptyPage, m) : m \in ExcMsgs}
    \cup {PwEnv("ok", -1, 403, shot, TRUE, EmptyPage, None) : shot \in BOOLEAN}
    \cup {PwEnv("ok", 200, 0, shot, TRUE, p, None) : shot \in BOOLEAN, p \in Pages}
    \cup {PwEnv("ok", 0, 0, shot, TRUE, SmallPage, None) : shot \in BOOLEAN}
    \cup {PwEnv("ok", 200, 0, shot, FALSE, MixedPage, None) : shot \in BOOLEAN}

\* lines 83-86
ChallengeMsg(status) ==
    IF status = 403 THEN Str("Challenge page: HTTP 403", 24)
    ELSE Str("Challenge page: HTTP 503", 24)

\* line 287: 'Challenge page' in result['error']
ContainsChallengePage(err) ==
    /\ Truthy(err)
    /\ err.text \in {"Challenge page: HTTP 403", "Challenge page: HTTP 503"}
    /\ err.len >= 14

\* lines 110-139: after a navigation that did not end the attempt
PwAfterNavigation(res, env) ==
    [res EXCEPT
        !.screenshot_bytes = IF env.shot THEN "jpeg" ELSE "None",
        !.nav_text = IF env.js THEN PwNavText(env.page) ELSE <<>>,
        !.hero_text = IF env.js THEN PwHeroText(env.page) ELSE <<>>,
        !.success = TRUE]

\* lines 24-158
PlaywrightFetcher_fetch_domain(env, att) ==
    LET res == PwInitialResult(att)
    IN CASE env.ctx = "raise" ->
                \* line 141-143: the outer handler
                [res EXCEPT !.error = Slice(env.msg, 200)]
         [] env.ctx = "ok" /\ env.https \in {403, 503} ->
                \* lines 84-92: the challenge page, with a screenshot as evidence
                [res EXCEPT !.http_status = env.https,
                            !.error = ChallengeMsg(env.https),
                            !.screenshot_bytes = IF env.shot THEN "jpeg" ELSE "None"]
         [] env.ctx = "ok" /\ env.https = -1 /\ env.http = -1 ->
                \* line 108, then the outer handler
                [res EXCEPT !.error =
                    Slice(Concat(Str("Both HTTPS and HTTP failed: ", 28), env.msg), 200)]
         [] env.ctx = "ok" /\ env.https = -1 /\ env.http # -1 ->
                PwAfterNavigation([res EXCEPT !.http_status = env.http], env)
         [] OTHER ->
                PwAfterNavigation([res EXCEPT !.http_status = env.https], env)

\* a finally block that never closes the page
PageNeedsClose_Never(page) == FALSE

\* line 147: page and not page.is_closed()
PageNeedsClose(page) == page \notin {"None", "closed"}

\* no fetch_domain call of its own is running; context and page are "None",
\* "open" or "closed"
PwFetchIdle ==
    [pc |-> "idle", attempt |-> 0, context |-> "None", page |-> "None",
     context_close |-> FALSE, page_close |-> FALSE, path |-> "none",
     created |-> 0, close_calls |-> 0]

\* lines 293-306
score_result(r) ==
    (IF r.success THEN 100 ELSE 0)
    + (IF r.screenshot_bytes # "None" THEN 50 ELSE 0)
    + Len(r.nav_text) + Len(r.hero_text)

\* best_result = None
NoResult == [success |-> FALSE, http_status |-> 0, nav_text |-> <<>>, hero_text |-> <<>>,
             screenshot_bytes |-> "None", attempt |-> -1, error |-> None]

\* line 291: the result when no attempt ran
RetriesExhausted ==
    [NoResult EXCEPT !.error = Str("All retries exhausted", 21)]

\* a loop that keeps the result of the attempt it has just made
KeepBest_Last(best, r) == r

\* lines 281-284: the best result after one more attempt
KeepBest(best, r) ==
    IF best = NoResult \/ score_result(r) > score_result(best) THEN r ELSE best

\* the loop without its bound (a `while True` in place of line 271)
StopRetrying_NoBound(r, att) ==
    \/ r.success
    \/ ContainsChallengePage(r.error)

\* the loop without the break of lines 287-289
StopRetrying_IgnoresChallenge(r, att) ==
    \/ r.success
    \/ att + 1 >= max_retries

\* lines 281-289: whether the loop ends with this attempt
StopRetrying(r, att) ==
    \/ r.success
    \/ ContainsChallengePage(r.error)
    \/ att + 1 >= max_retries

----------------------------------------------------------------------------
(* Stage 3: FirecrawlFetcher                                               *)

\* a markdown line: its heading text ("" when the line is no heading) and
\* the labels of its [label](url) links
MdLine(heading, labels) == [heading |-> heading, labels |-> labels]

Markdowns ==
    {<<>>,
     << MdLine("lingerie boutique", <<>>),
        MdLine("", <<"bras", "lingerie", "shop", "bras", "on">>),
        MdLine("lingerie boutique", <<"sale">>) >>}

\* lines 122-153
parse_markdown(markdown) ==
    LET heads == SelectSeq([i \in 1..Len(markdown) |-> markdown[i].heading],
                           LAMBDA h : Len(h) > 2 /\ Len(h) < 100)
        labels == SelectSeq(Flatten([i \in 1..Len(markdown) |-> markdown[i].labels]),
                            LAMBDA t : Len(t) > 2 /\ Len(t) < 100)
    IN [nav_text |-> Take(Dedup(labels), 150), hero_text |-> Take(Dedup(heads), 20)]

\* What the scrape request comes to:
\*   kind  "response", "timeout" or "raise" (with msg)
\*   status, and for a 200 the JSON body: success, error (Absent when the
\*   key is missing), data.markdown
Absent == [isNone |-> TRUE, text |-> "absent", len |-> 0]

FcEnv(kind, status, success, error, markdown, msg) ==
    [kind |-> kind, status |-> status, success |-> success, error |-> error,
     markdown |-> markdown, msg |-> msg]

FcEnvs ==
    {FcEnv("response", 402, FALSE, Absent, <<>>, None)}
    \cup {FcEnv("response", 200, FALSE, e, <<>>, None) :
            e \in {Absent, None, Str("", 0), Str("blocked", 7), Str("long api error", 600)}}
    \cup {FcEnv("response", 200, TRUE, Absent, md, None) : md \in Markdowns}
    \cup {FcEnv("timeout", 0, FALSE, Absent, <<>>, None)}
    \cup {FcEnv("raise", 0, FALSE, Absent, <<>>, m) : m \in ExcMsgs}

\* lines 35-45
FcInitialResult ==
    [success |-> FALSE, nav_text |-> <<>>, hero_text |-> <<>>, error |-> None]

\* lines 25-110
FirecrawlFetcher_fetch_domain(env) ==
    LET res == FcInitialResult
    IN CASE env.kind = "timeout" -> [res EXCEPT !.error = Str("Firecrawl timeout", 17)]
         [] env.kind = "raise" -> [res EXCEPT !.error = Slice(env.msg, 200)]
         [] env.kind = "response" /\ env.status # 200 ->
                [res EXCEPT !.error = Str("Firecrawl API error: status", 24)]
         [] env.kind = "response" /\ env.status = 200 /\ ~env.success ->
                \* line 80: data.get('error', 'Unknown Firecrawl error')
                [res EXCEPT !.error = IF env.error = Absent
                                      THEN Str("Unknown Firecrawl error", 23)
                                      ELSE env.error]
         [] OTHER ->
                LET parsed == IF env.markdown # <<>> THEN parse_markdown(env.markdown)
                              ELSE [nav_text |-> <<>>, hero_text |-> <<>>]
                IN [res EXCEPT !.nav_text = parsed.nav_text,
                               !.hero_text = parsed.hero_text,
                               !.success = TRUE]

----------------------------------------------------------------------------
(* Stage 4: Scorer.classify                                                *)

\* vision_score = None, text_score = None
NoScore == Frac(0, 0)

\* lines 75-78
text_extraction_failed(feats) ==
    Len(feats.nav_text) < 5 /\ Len(feats.hero_text) < 3

\* lines 85 / classifier_service.py line 156: lo <= text_score <= hi
InTriggerRange(t) ==
    /\ FracLeq(Pct(scoring_config.stage_b_trigger_range[1]), t)
    /\ FracLeq(t, Pct(scoring_config.stage_b_trigger_range[2]))

\* a need_vision that does not look at vision_config['enabled']
need_vision_IgnoresEnabled(c, feats, tsd) ==
    /\ c.openai_client
    /\ (InTriggerRange(tsd.text_score) \/ text_extraction_failed(feats))

\* lines 80-89
need_vision(c, feats, tsd) ==
    /\ c.vision_enabled
    /\ c.openai_client
    /\ (InTriggerRange(tsd.text_score) \/ text_extraction_failed(feats))

\* lines 91-107: the vision model is asked only for a screenshot, since
\* every features dict the service builds has image_urls = []
AsksVision(c, feats, tsd) ==
    need_vision(c, feats, tsd) /\ feats.screenshot_bytes # "None"

\* What _analyze_screenshot_bytes returns: a number, None (any failure of
\* the call, quota errors included), or the string a legacy-format answer
\* carries as its confidence
VisionAnswers ==
    {[kind |-> "score", score |-> Pct(h)] : h \in {10, 90, 150}}
    \cup {[kind |-> "None", score |-> NoScore], [kind |-> "str", score |-> NoScore]}

NoVision == [kind |-> "None", score |-> NoScore]

\* line 107: f"{vision_score:.2f}" of a str
FormatErrorMsg == Str("Unknown format code 'f' for object of type 'str'", 48)

\* a fusion that uses the configured weights in every case
Fuse_ConfiguredWeightsOnly(w, failed, t, v) ==
    Frac(w.text * t.n * v.d + w.vision * v.n * t.d, 100 * t.d * v.d)

\* lines 115-126, for the weights w of stage_b_weights (in hundredths)
Fuse(w, failed, t, v) ==
    IF failed
    THEN Frac(10 * t.n * v.d + 90 * v.n * t.d, 100 * t.d * v.d)
    ELSE Frac(w.text * t.n * v.d + w.vision * v.n * t.d, 100 * t.d * v.d)

\* lines 115-126 with the weights of the service's configuration
FinalScore(feats, t, v) ==
    Fuse(scoring_config.stage_b_weights, text_extraction_failed(feats), t, v)

\* labels with a strict comparison at the pure-bodywear threshold
LabelFor_StrictPure(th, final) ==
    IF ~FracLeq(final, Pct(th.pure_bodywear))
    THEN [label |-> "Pure Bodywear", confidence |-> final]
    ELSE IF FracLeq(Pct(th.bodywear_leaning), final)
    THEN [label |-> "Bodywear Leaning", confidence |-> final]
    ELSE IF FracLeq(Pct(th.generalist), final)
    THEN [label |-> "Needs Review", confidence |-> Frac(1, 2)]
    ELSE [label |-> "Generalist", confidence |-> Frac(final.d - final.n, final.d)]

\* lines 134-147, for the thresholds th (in hundredths)
LabelFor(th, final) ==
    IF FracLeq(Pct(th.pure_bodywear), final)
    THEN [label |-> "Pure Bodywear", confidence |-> final]
    ELSE IF FracLeq(Pct(th.bodywear_leaning), final)
    THEN [label |-> "Bodywear Leaning", confidence |-> final]
    ELSE IF FracLeq(Pct(th.generalist), final)
    THEN [label |-> "Needs Review", confidence |-> Frac(1, 2)]
    ELSE [label |-> "Generalist", confidence |-> Frac(final.d - final.n, final.d)]

\* lines 134-147 with the thresholds of the service's configuration
LabelOf(final) == LabelFor(scoring_config.thresholds, final)

\* lines 50-58 and 109-151: the classification dict for the vision score v
\* (NoScore for None) and the image count cnt
Classification(w, th, feats, tsd, v, cnt) ==
    LET t == tsd.text_score
        got == v # NoScore
        final == IF got THEN Fuse(w, text_extraction_failed(feats), t, v) ELSE t
        lab == LabelFor(th, final)
    IN [label |-> lab.label, confidence |-> lab.confidence, text_score |-> t,
        vision_score |-> v,
        final_score |-> final,
        image_count |-> cnt,
        stage |-> IF got THEN "B" ELSE "A"]

\* lines 35-151, for the answer `vis` of the vision call (NoVision when no
\* call is made); the classification dict it returns
Scorer_classify(feats, tsd, vis) ==
    LET got == vis.kind = "score"
    IN Classification(scoring_config.stage_b_weights, scoring_config.thresholds,
                      feats, tsd, IF got THEN vis.score ELSE NoScore,
                      IF got THEN 1 ELSE 0)

NonErrorLabels == {"Pure Bodywear", "Bodywear Leaning", "Needs Review", "Generalist"}

\* line 165: vision_config['images_per_domain']
images_per_domain == 2

\* lines 50-58: the result dict before a label is assigned
NoClassification ==
    [label |-> "None", confidence |-> Frac(0, 1), text_score |-> NoScore,
     vision_score |-> NoScore, final_score |-> NoScore, image_count |-> 0,
     stage |-> "A"]

\* no Scorer.classify call of its own is running
ScorerIdle ==
    [pc |-> "idle", conf |-> <<>>, features |-> <<>>, tsd |-> <<>>, path |-> "none",
     todo |-> 0, scores |-> <<>>, calls |-> 0, result |-> NoClassification,
     raised |-> None]

\* no text score of its own is being computed
TextIdle == [pc |-> "idle", b |-> 0, g |-> 0, p |-> 0, score |-> NoScore,
             prev |-> NoScore, last |-> "none"]

----------------------------------------------------------------------------
(* PopupHandler.dismiss_all and the use of the domain string: values       *)

\* popup_handler.py lines 62-68: the report of dismiss_all before its first
\* round, with the measurements and the calls of the last-resort hide
PopupIdle ==
    [pc |-> "idle", max_attempts |-> 0, obstruction_threshold |-> 0,
     attempt |-> 0, cmp_dismissed |-> FALSE, newsletter_dismissed |-> FALSE,
     obstruction_cleared |-> FALSE, attempts |-> 0, methods_used |-> <<>>,
     measured |-> <<>>, hide_calls |-> 0, hidden |-> "none"]

\* the domain string a caller passes, the URLs requested with it and the
\* domain of the result
NamingIdle ==
    [pc |-> "idle", domain |-> <<>>, urls |-> <<>>, reported |-> <<>>]

----------------------------------------------------------------------------
(* The steps of a browser attempt after its navigation: values             *)

\* no attempt is running: the page, the screenshot held so far, the steps
\* taken (each with whether it went through) and what the attempt returns
CaptureIdle ==
    [pc |-> "idle", impl |-> "none", page |-> "None", screenshot_bytes |-> "None",
     steps |-> <<>>,
     outcome |-> [kind |-> "none", screenshot_bytes |-> "None", page |-> "None"]]

----------------------------------------------------------------------------
(* Concurrent classify_domain calls on one service: values                 *)

\* classifier_service.py lines 66-67: _browser and _playwright are None (0);
\* no call is running, nothing was launched or closed
LauncherIdle ==
    [pcs |-> <<>>, browser |-> 0, playwright |-> 0, launched |-> 0,
     closed |-> {}, close_pc |-> "idle"]

----------------------------------------------------------------------------
(* Worker and process_batch: values                                        *)

\* Worker.__init__ (worker.py lines 25-29) with no run in the database: the
\* run's status and counters, the status and the label of each of its
\* records, an upload_domains request between its check and its commit,
\* whether start_run was accepted, and the restarts of the process
WorkerIdle ==
    [pc |-> "idle", is_running |-> FALSE, should_stop |-> FALSE,
     run_status |-> "None", records |-> <<>>, current |-> 0,
     processed_records |-> 0, stop_call |-> "none", started_late |-> FALSE,
     labels |-> <<>>, total_records |-> 0, upload |-> 0, started |-> FALSE,
     last |-> "none", restarts |-> 0]

\* no process_batch has been started; no output file
BatchIdle ==
    [pc |-> "idle", runs |-> 0, file |-> <<>>, completed_domains |-> {},
     domains_to_process |-> <<>>, i |-> 1, shutdown_flag |-> FALSE,
     loaded |-> {}, classified |-> {}, lost |-> {}, started_late |-> FALSE]

----------------------------------------------------------------------------
(* ClassifierService.classify_domain                                       *)

\* a result that starts without a label
InitialResult_Unlabelled ==
    [label |-> "None", confidence |-> Frac(0, 1), text_score |-> NoScore,
     vision_score |-> NoScore, final_score |-> NoScore, image_count |-> 0,
     stage_used |-> "None", http_status |-> 0, nav_count |-> 0,
     heading_count |-> 0, error |-> None]

\* lines 105-121
InitialResult ==
    [label |-> "Error", confidence |-> Frac(0, 1), text_score |-> NoScore,
     vision_score |-> NoScore, final_score |-> NoScore, image_count |-> 0,
     stage_used |-> "None", http_status |-> 0, nav_count |-> 0,
     heading_count |-> 0, error |-> None]

\* features = None
NoFeatures ==
    [isNone |-> TRUE, nav_text |-> <<>>, hero_text |-> <<>>, cta_text |-> <<>>,
     screenshot_bytes |-> "None"]

\* lines 136-145, 179-188, 202-211: every features dict has cta_text = []
Features(nav, hero, shot) ==
    [isNone |-> FALSE, nav_text |-> nav, hero_text |-> hero, cta_text |-> <<>>,
     screenshot_bytes |-> shot]

NoTextScore == [text_score |-> NoScore, bodywear_count |-> 0, generalist_count |-> 0]

NoTrace == [events |-> <<>>, attempts |-> <<>>]

\* the threshold of line 134 off by one
HttpAccepted_OffByOne(hr) == hr.success /\ Len(hr.nav_text) > 5

\* line 134
HttpAccepted(hr) == hr.success /\ Len(hr.nav_text) >= 5

\* lines 155-156
WantsScreenshot(c, tsd) == c.vision_enabled /\ InTriggerRange(tsd.text_score)

\* line 178 without its success disjunct
PwUsable_ScreenshotOnly(pr) == pr.screenshot_bytes # "None"

\* line 178
PwUsable(pr) == pr.success \/ pr.screenshot_bytes # "None"

\* a handler that stores str(e) uncut
Except_NoTruncation(res, msg) == [res EXCEPT !.error = msg]

\* lines 251-253
Except(res, msg) == [res EXCEPT !.error = Slice(msg, 500)]

\* s.endswith('+vision')
EndsWithVision(st) == st \in {"http+vision", "playwright+vision", "firecrawl+vision"}

\* lines 240-247
StageUsedAfter(st, cls) ==
    IF cls.stage = "B" /\ cls.vision_score # NoScore
    THEN IF st # "None" /\ ~EndsWithVision(st) THEN st \o "+vision" ELSE st
    ELSE st

\* lines 237-249
Finish(res, st, cls) ==
    [res EXCEPT !.label = cls.label, !.confidence = cls.confidence,
                !.text_score = cls.text_score, !.vision_score = cls.vision_score,
                !.final_score = cls.final_score, !.image_count = cls.image_count,
                !.stage_used = StageUsedAfter(st, cls), !.error = None]

Event(e) == [trace EXCEPT !.events = Append(@, e)]

\* the summary of one attempt of the retry ladder
AttemptOf(r) ==
    [success |-> r.success, challenge |-> ContainsChallengePage(r.error),
     screenshot |-> r.screenshot_bytes # "None",
     nav |-> Len(r.nav_text), hero |-> Len(r.hero_text),
     wait |-> wait_until(r.attempt)]

\* the local variables of the fetchers, as they are before their calls
FetcherLocals == <<http_i, http_result, attempt, best_result, pw_result, fc_result>>

OrchLocals == <<features, stage_used, text_score_data>>

Service == <<cfg, browser, calls>>

\* every component but u is not run on its own
OthersIdle(u) ==
    /\ u # "scorer" => scorer = ScorerIdle
    /\ u # "textscore" => textscore = TextIdle
    /\ u # "httpfetch" => httpfetch = HttpFetchIdle
    /\ u # "pwfetch" => pwfetch = PwFetchIdle
    /\ u # "worker" => worker = WorkerIdle
    /\ u # "batch" => batch = BatchIdle
    /\ u # "popup" => popup = PopupIdle
    /\ u # "naming" => naming = NamingIdle
    /\ u # "capture" => capture = CaptureIdle
    /\ u # "launcher" => launcher = LauncherIdle

\* the service after __init__, before its first classify_domain call
ServiceInit ==
    /\ pc = "idle"
    /\ cfg \in {ClassifierService_init(env) : env \in Environments}
    /\ browser = "None"
    /\ calls = 0
    /\ result = InitialResult
    /\ http_i = 1
    /\ http_result = HttpInitialResult
    /\ attempt = 0
    /\ best_result = NoResult
    /\ pw_result = NoResult
    /\ fc_result = FcInitialResult
    /\ features = NoFeatures
    /\ stage_used = "None"
    /\ text_score_data = NoTextScore
    /\ inflight = {}
    /\ trace = NoTrace
    /\ raised = None

Init ==
    /\ ServiceInit
    /\ OthersIdle("pipeline")

\* the start of a run of component u on its own: the service is constructed
\* and makes no call
UnitInit(u) ==
    /\ ServiceInit
    /\ cfg = ClassifierService_init([vision_enabled |-> TRUE, openai_api_key |-> TRUE,
                                     firecrawl_api_key |-> TRUE, stage_a_weights |-> TRUE])
    /\ OthersIdle(u)

\* the except / finally / return of classify_domain for an exception e
Raise(e) ==
    /\ pc' = "returned"
    /\ result' = Except(result, e)
    /\ raised' = e
    /\ inflight' = {}

\* a classify_domain that starts Stage 1 and Stage 2 together
ClassifyStart_FanOut ==
    /\ pc = "idle"
    /\ calls < MaxCalls
    /\ calls' = calls + 1
    /\ browser' = "launched"
    /\ result' = InitialResult
    /\ pc' = "http"
    /\ inflight' = {"http", "pw"}
    /\ trace' = [trace EXCEPT !.events = @ \o <<"http:call", "pw:call">>]
    /\ UNCHANGED <<units, cfg, FetcherLocals, OrchLocals, raised>>

\* lines 105-125 when _ensure_browser has a browser or launches one, then
\* the call of Stage 1 (line 129)
ClassifyStart ==
    /\ pc = "idle"
    /\ calls < MaxCalls
    /\ calls' = calls + 1
    /\ browser' = "launched"
    /\ result' = InitialResult
    /\ pc' = "http"
    /\ inflight' = {"http"}
    /\ trace' = Event("http:call")
    /\ UNCHANGED <<units, cfg, FetcherLocals, OrchLocals, raised>>

\* lines 105-125 when the browser launch of _ensure_browser raises
EnsureBrowserRaises ==
    /\ pc = "idle"
    /\ calls < MaxCalls
    /\ browser = "None"
    /\ calls' = calls + 1
    /\ \E e \in ExcMsgs :
        /\ pc' = "returned"
        /\ result' = Except(InitialResult, e)
        /\ raised' = e
    /\ UNCHANGED <<units, cfg, browser, FetcherLocals, OrchLocals, inflight, trace>>

\* http_fetcher.py line 58: the session cannot be opened; nothing in
\* fetch_domain catches it
HttpSessionRaises ==
    /\ pc = "http"
    /\ http_i = 1
    /\ \E e \in ExcMsgs : Raise(e)
    /\ trace' = Event("http:raise")
    /\ UNCHANGED <<units, Service, FetcherLocals, OrchLocals>>

\* http_fetcher.py lines 59-114: one request of the loop over the schemes
HttpRequest ==
    /\ pc = "http"
    /\ \E resp \in HttpResponses :
        LET r == HttpTryUrl(http_result, resp, http_i)
        IN /\ http_result' = r
           /\ IF r.success \/ http_i >= 2
              THEN /\ pc' = "after_http"
                   /\ inflight' = {}
                   /\ http_i' = 1
                   /\ trace' = [trace EXCEPT !.events = @ \o <<"http:get", "http:return">>]
              ELSE /\ pc' = "http"
                   /\ inflight' = inflight
                   /\ http_i' = http_i + 1
                   /\ trace' = Event("http:get")
    /\ UNCHANGED <<units, Service, result, attempt, best_result, pw_result, fc_result,
                   OrchLocals, raised>>

\* lines 134-148 when calculate_text_score raises on the accepted outcome
HttpAcceptedScoreRaises ==
    /\ pc = "after_http"
    /\ HttpAccepted(http_result)
    /\ ~cfg.stage_a_weights
    /\ features' = Features(http_result.nav_text, http_result.hero_text, "None")
    /\ Raise(KeyErrorMsg)
    /\ trace' = [trace EXCEPT !.events = @ \o <<"accept", "textscore:raise">>]
    /\ UNCHANGED <<units, Service, FetcherLocals, stage_used, text_score_data>>

\* lines 134-170: Stage 1 is accepted
HttpAcceptedStep ==
    /\ pc = "after_http"
    /\ HttpAccepted(http_result)
    /\ cfg.stage_a_weights
    /\ LET feats == Features(http_result.nav_text, http_result.hero_text, "None")
           tsd == calculate_text_score(feats)
       IN /\ features' = feats
          /\ text_score_data' = tsd
          /\ IF WantsScreenshot(cfg, tsd)
             THEN /\ pc' = "shot"
                  /\ inflight' = {"shot"}
                  /\ stage_used' = stage_used
                  /\ trace' = [trace EXCEPT !.events = @ \o <<"accept", "shot:call">>]
             ELSE /\ pc' = "score"
                  /\ inflight' = {}
                  /\ stage_used' = "http"
                  /\ trace' = Event("accept")
    /\ UNCHANGED <<units, Service, result, FetcherLocals, raised>>

\* lines 160-166: the single fetch_domain for a screenshot
ScreenshotFetch ==
    /\ pc = "shot"
    /\ \E env \in PwEnvs :
        LET r == PlaywrightFetcher_fetch_domain(env, 0)
        IN /\ pw_result' = r
           /\ IF r.screenshot_bytes # "None"
              THEN /\ features' = [features EXCEPT !.screenshot_bytes = r.screenshot_bytes]
                   /\ stage_used' = "http+vision"
              ELSE /\ features' = features
                   /\ stage_used' = "http"
    /\ pc' = "score"
    /\ inflight' = {}
    /\ trace' = [trace EXCEPT !.events = @ \o <<"pw:fetch", "shot:return">>]
    /\ UNCHANGED <<units, Service, result, http_i, http_result, attempt, best_result,
                   fc_result, text_score_data, raised>>

\* lines 172-176: Stage 1 failed or is insufficient; Stage 2 is called
HttpInsufficientStep ==
    /\ pc = "after_http"
    /\ ~HttpAccepted(http_result)
    /\ pc' = "pw"
    /\ inflight' = {"pw"}
    /\ attempt' = 0
    /\ best_result' = NoResult
    /\ trace' = Event("pw:call")
    /\ UNCHANGED <<units, Service, result, http_i, http_result, pw_result, fc_result,
                   OrchLocals, raised>>

\* playwright_fetcher.py lines 271-291: one pass of the retry loop
PwAttempt ==
    /\ pc = "pw"
    /\ attempt < max_retries
    /\ \E env \in PwEnvs :
        LET r == PlaywrightFetcher_fetch_domain(env, attempt)
            best == IF r.success THEN best_result ELSE KeepBest(best_result, r)
            evs == (IF attempt > 0 THEN <<"pw:sleep">> ELSE <<>>) \o <<"pw:fetch">>
        IN /\ IF StopRetrying(r, attempt)
              THEN /\ pw_result' = IF r.success THEN r
                                   ELSE IF best # NoResult THEN best ELSE RetriesExhausted
                   /\ pc' = "after_pw"
                   /\ inflight' = {}
                   /\ attempt' = 0
                   /\ best_result' = NoResult
                   /\ trace' = [events |-> trace.events \o evs \o <<"pw:return">>,
                                attempts |-> Append(trace.attempts, AttemptOf(r))]
              ELSE /\ pw_result' = pw_result
                   /\ pc' = "pw"
                   /\ inflight' = inflight
                   /\ attempt' = attempt + 1
                   /\ best_result' = best
                   /\ trace' = [events |-> trace.events \o evs,
                                attempts |-> Append(trace.attempts, AttemptOf(r))]
    /\ UNCHANGED <<units, Service, result, http_i, http_result, fc_result, OrchLocals, raised>>

\* lines 178-194: Stage 2 gave a success or a screenshot
PwUsableStep ==
    /\ pc = "after_pw"
    /\ PwUsable(pw_result)
    /\ features' = Features(pw_result.nav_text, pw_result.hero_text,
                            pw_result.screenshot_bytes)
    /\ stage_used' = "playwright"
    /\ result' = [result EXCEPT !.http_status = pw_result.http_status]
    /\ pc' = "score"
    /\ UNCHANGED <<units, Service, FetcherLocals, text_score_data, inflight, trace, raised>>

\* lines 195-199: Stage 2 failed and a fallback fetcher exists
PwFailedFallbackStep ==
    /\ pc = "after_pw"
    /\ ~PwUsable(pw_result)
    /\ cfg.firecrawl_fetcher
    /\ pc' = "fc"
    /\ inflight' = {"fc"}
    /\ trace' = Event("fc:call")
    /\ UNCHANGED <<units, Service, result, FetcherLocals, OrchLocals, raised>>

\* lines 217-219: Stage 2 failed and there is no fallback fetcher
PwFailedNoFallbackStep ==
    /\ pc = "after_pw"
    /\ ~PwUsable(pw_result)
    /\ ~cfg.firecrawl_fetcher
    /\ result' = [result EXCEPT !.error = pw_result.error]
    /\ pc' = "returned"
    /\ UNCHANGED <<units, Service, FetcherLocals, OrchLocals, inflight, trace, raised>>

\* firecrawl_fetcher.py lines 25-110: the one scrape request
FcFetch ==
    /\ pc = "fc"
    /\ \E env \in FcEnvs : fc_result' = FirecrawlFetcher_fetch_domain(env)
    /\ pc' = "after_fc"
    /\ inflight' = {}
    /\ trace' = [trace EXCEPT !.events = @ \o <<"fc:post", "fc:return">>]
    /\ UNCHANGED <<units, Service, result, http_i, http_result, attempt, best_result,
                   pw_result, OrchLocals, raised>>

\* lines 201-213: Stage 3 succeeded
FcSuccessStep ==
    /\ pc = "after_fc"
    /\ fc_result.success
    /\ features' = Features(fc_result.nav_text, fc_result.hero_text, "None")
    /\ stage_used' = "firecrawl"
    /\ pc' = "score"
    /\ UNCHANGED <<units, Service, result, FetcherLocals, text_score_data, inflight, trace, raised>>

\* lines 214-216: Stage 3 failed
FcFailedStep ==
    /\ pc = "after_fc"
    /\ ~fc_result.success
    /\ result' = [result EXCEPT !.error = fc_result.error]
    /\ pc' = "returned"
    /\ UNCHANGED <<units, Service, FetcherLocals, OrchLocals, inflight, trace, raised>>

\* line 226 when calculate_text_score raises
ScoreRaises ==
    /\ pc = "score"
    /\ ~cfg.stage_a_weights
    /\ Raise(KeyErrorMsg)
    /\ trace' = [trace EXCEPT !.events = @ \o <<"score:call", "score:raise">>]
    /\ UNCHANGED <<units, Service, FetcherLocals, OrchLocals>>

\* lines 226-231 and Scorer.classify up to its vision call
ScoreAskVision ==
    /\ pc = "score"
    /\ cfg.stage_a_weights
    /\ LET tsd == calculate_text_score(features)
       IN /\ AsksVision(cfg, features, tsd)
          /\ text_score_data' = tsd
    /\ result' = [result EXCEPT !.nav_count = Len(features.nav_text),
                                !.heading_count = Len(features.hero_text),
                                !.stage_used = stage_used]
    /\ pc' = "vision"
    /\ inflight' = {"vision"}
    /\ trace' = [trace EXCEPT !.events = @ \o <<"score:call", "vision:call">>]
    /\ UNCHANGED <<units, Service, FetcherLocals, features, stage_used, raised>>

\* lines 226-249 when Scorer.classify makes no vision call
ScoreTextOnly ==
    /\ pc = "score"
    /\ cfg.stage_a_weights
    /\ \E tsd \in {calculate_text_score(features)} :
        /\ ~AsksVision(cfg, features, tsd)
        /\ text_score_data' = tsd
        /\ \E classification \in {Scorer_classify(features, tsd, NoVision)} :
            LET evidence == [result EXCEPT !.nav_count = Len(features.nav_text),
                                           !.heading_count = Len(features.hero_text),
                                           !.stage_used = stage_used]
            IN result' = Finish(evidence, stage_used, classification)
    /\ pc' = "returned"
    /\ trace' = [trace EXCEPT !.events = @ \o <<"score:call", "score:return">>]
    /\ UNCHANGED <<units, Service, FetcherLocals, features, stage_used, inflight, raised>>

\* scorer.py lines 102-151 and classifier_service.py lines 237-249: the
\* vision call returns
VisionReturn ==
    /\ pc = "vision"
    /\ \E ans \in VisionAnswers :
        IF ans.kind = "str"
        THEN /\ Raise(FormatErrorMsg)
             /\ trace' = Event("vision:raise")
        ELSE /\ result' = Finish(result, stage_used,
                                 Scorer_classify(features, text_score_data, ans))
             /\ pc' = "returned"
             /\ inflight' = {}
             /\ raised' = raised
             /\ trace' = [trace EXCEPT !.events = @ \o <<"vision:return", "score:return">>]
    /\ UNCHANGED <<units, Service, FetcherLocals, OrchLocals>>

\* line 258: the result goes to the caller; the locals of the call end
Return ==
    /\ pc = "returned"
    /\ calls < MaxCalls
    /\ pc' = "idle"
    /\ result' = InitialResult
    /\ http_i' = 1
    /\ http_result' = HttpInitialResult
    /\ attempt' = 0
    /\ best_result' = NoResult
    /\ pw_result' = NoResult
    /\ fc_result' = FcInitialResult
    /\ features' = NoFeatures
    /\ stage_used' = "None"
    /\ text_score_data' = NoTextScore
    /\ inflight' = {}
    /\ trace' = NoTrace
    /\ raised' = None
    /\ UNCHANGED <<units, Service>>

Next ==
    \/ ClassifyStart
    \/ EnsureBrowserRaises
    \/ HttpSessionRaises
    \/ HttpRequest
    \/ HttpAcceptedScoreRaises
    \/ HttpAcceptedStep
    \/ ScreenshotFetch
    \/ HttpInsufficientStep
    \/ PwAttempt
    \/ PwUsableStep
    \/ PwFailedFallbackStep
    \/ PwFailedNoFallbackStep
    \/ FcFetch
    \/ FcSuccessStep
    \/ FcFailedStep
    \/ ScoreRaises
    \/ ScoreAskVision
    \/ ScoreTextOnly
    \/ VisionReturn
    \/ Return

Spec == Init /\ [][Next]_vars

\* Every await of classify_domain returns or times out: a call that can
\* take a step takes one
SpecFair == Spec /\ WF_vars(Next)

----------------------------------------------------------------------------
(* Scorer.classify on its own: any features, text score and configuration *)

\* n texts
Texts(n) == [i \in 1..n |-> "text"]

\* Scorer.__init__: the vision flag, the client (None without a key), the
\* stage-B weights and the thresholds of the configuration
ScorerConfs ==
    [vision_enabled : BOOLEAN, openai_client : BOOLEAN,
     stage_b_weights : {[text |-> 50, vision |-> 50], [text |-> 30, vision |-> 70]},
     thresholds : {[pure_bodywear |-> 70, bodywear_leaning |-> 45, generalist |-> 30],
                   [pure_bodywear |-> 60, bodywear_leaning |-> 60, generalist |-> 20]}]

\* the features argument: navigation terms and headings around the bounds
\* of lines 75-78, image urls below and above the cap, a screenshot or none
ScorerFeatures ==
    [nav_text : {Texts(4), Texts(5)}, hero_text : {Texts(2), Texts(3)},
     image_urls : {<<>>, <<"a.jpg">>, <<"a.jpg", "b.jpg", "c.jpg">>},
     screenshot_bytes : {"None", "jpeg"}]

\* the text_score_data argument: scores around the trigger range and the
\* thresholds
ScorerTextScores ==
    {[text_score |-> Pct(h), bodywear_count |-> 0, generalist_count |-> 0] :
        h \in {0, 39, 40, 60, 75, 76, 100}}

\* What _classify_single_image returns: the number the answer carries
\* (whatever its size), None (a failed call, quota errors included, or a
\* null score), or the string a JSON answer carries as its score
ImageAnswers ==
    {[kind |-> "score", score |-> Pct(h)] : h \in {10, 90, 150}}
    \cup {[kind |-> "None", score |-> NoScore], [kind |-> "str", score |-> NoScore]}

\* line 190: sum(scores) over a list that holds a str
SumErrorMsg == Str("unsupported operand type(s) for +: 'int' and 'str'", 50)

RECURSIVE GCD(_, _)
GCD(a, b) == IF b = 0 THEN a ELSE GCD(b, a % b)

\* the same number in lowest terms (n >= 0, d > 0)
Lowest(f) == LET k == GCD(f.n, f.d) IN Frac(f.n \div k, f.d \div k)

FracAdd(a, b) == Lowest(Frac(a.n * b.d + b.n * a.d, a.d * b.d))

RECURSIVE FracSum(_)
FracSum(xs) == IF xs = <<>> THEN Frac(0, 1) ELSE FracAdd(Head(xs).score, FracSum(Tail(xs)))

\* line 190: sum(scores) / len(scores)
Mean(xs) == LET sum == FracSum(xs) IN Lowest(Frac(sum.n, sum.d * Len(xs)))

\* line 165: image_urls[:max_images]
SelectedImages(feats) == Take(feats.image_urls, images_per_domain)

InitScorer ==
    /\ UnitInit("scorer")
    /\ scorer \in {[ScorerIdle EXCEPT !.pc = "start", !.conf = c, !.features = f, !.tsd = t] :
                        c \in ScorerConfs, f \in ScorerFeatures, t \in ScorerTextScores}

\* lines 91-132 when no vision score is looked for: vision is not needed, or
\* there are neither image urls nor a screenshot
Classify_TextOnly ==
    /\ scorer.pc = "start"
    /\ \/ ~need_vision(scorer.conf, scorer.features, scorer.tsd)
       \/ /\ scorer.features.image_urls = <<>>
          /\ scorer.features.screenshot_bytes = "None"
    /\ scorer' = [scorer EXCEPT
            !.pc = "done",
            !.result = Classification(scorer.conf.stage_b_weights, scorer.conf.thresholds,
                                      scorer.features, scorer.tsd, NoScore, 0)]
    /\ UNCHANGED OutsideScorer

\* lines 95-97 and 160-171: _analyze_images is called; of the selected
\* images any number is downloaded and resized
Classify_AnalyzeImages ==
    /\ scorer.pc = "start"
    /\ need_vision(scorer.conf, scorer.features, scorer.tsd)
    /\ scorer.features.image_urls # <<>>
    /\ \E k \in 0..Len(SelectedImages(scorer.features)) :
            scorer' = [scorer EXCEPT !.pc = "images", !.path = "images", !.todo = k]
    /\ UNCHANGED OutsideScorer

\* lines 176-182: one _classify_single_image call
ClassifySingleImage ==
    /\ scorer.pc = "images"
    /\ scorer.todo > 0
    /\ \E ans \in ImageAnswers :
            scorer' = [scorer EXCEPT
                !.todo = @ - 1,
                !.calls = @ + 1,
                !.scores = IF ans.kind = "None" THEN @ ELSE Append(@, ans)]
    /\ UNCHANGED OutsideScorer

\* lines 170-171, 184-190: _analyze_images returns 0.5 without a score and
\* the mean otherwise; then lines 97-98 and 110-151 of classify
AnalyzeImagesReturn ==
    /\ scorer.pc = "images"
    /\ scorer.todo = 0
    /\ IF \E i \in 1..Len(scorer.scores) : scorer.scores[i].kind = "str"
       THEN scorer' = [scorer EXCEPT !.pc = "raised", !.raised = SumErrorMsg]
       ELSE LET v == IF scorer.scores = <<>> THEN Frac(5, 10) ELSE Mean(scorer.scores)
            IN scorer' = [scorer EXCEPT
                    !.pc = "done",
                    !.result = Classification(scorer.conf.stage_b_weights,
                                              scorer.conf.thresholds,
                                              scorer.features, scorer.tsd, v,
                                              Len(SelectedImages(scorer.features)))]
    /\ UNCHANGED OutsideScorer

\* lines 101-104: there are no image urls; _analyze_screenshot_bytes is called
Classify_AnalyzeScreenshot ==
    /\ scorer.pc = "start"
    /\ need_vision(scorer.conf, scorer.features, scorer.tsd)
    /\ scorer.features.image_urls = <<>>
    /\ scorer.features.screenshot_bytes # "None"
    /\ scorer' = [scorer EXCEPT !.pc = "screenshot", !.path = "screenshot", !.calls = @ + 1]
    /\ UNCHANGED OutsideScorer

\* lines 104-151: _analyze_screenshot_bytes has returned
AnalyzeScreenshotReturn ==
    /\ scorer.pc = "screenshot"
    /\ \E ans \in VisionAnswers :
        IF ans.kind = "str"
        THEN scorer' = [scorer EXCEPT !.pc = "raised", !.raised = FormatErrorMsg,
                                      !.scores = <<ans>>]
        ELSE scorer' = [scorer EXCEPT
                !.pc = "done",
                !.scores = IF ans.kind = "None" THEN <<>> ELSE <<ans>>,
                !.result = Classification(scorer.conf.stage_b_weights,
                                          scorer.conf.thresholds,
                                          scorer.features, scorer.tsd, ans.score,
                                          IF ans.kind = "score" THEN 1 ELSE 0)]
    /\ UNCHANGED OutsideScorer

NextScorer ==
    \/ Classify_TextOnly
    \/ Classify_AnalyzeImages
    \/ ClassifySingleImage
    \/ AnalyzeImagesReturn
    \/ Classify_AnalyzeScreenshot
    \/ AnalyzeScreenshotReturn

SpecScorer == InitScorer /\ [][NextScorer]_vars

----------------------------------------------------------------------------
(* Properties of classify_domain                                           *)

\* how often event e happened in this call
CountEv(e) == Count(trace.events, e)

\* the place of the first e among the events of this call, 0 when there is none
Pos(e) ==
    IF CountEv(e) = 0 THEN 0
    ELSE CHOOSE i \in 1..Len(trace.events) :
            /\ trace.events[i] = e
            /\ \A j \in 1..(i - 1) : trace.events[j] # e

\* if b happened, a happened before it
Before(a, b) == Pos(b) > 0 => (Pos(a) > 0 /\ Pos(a) < Pos(b))

\* classify_domain caught an exception in this call
Caught == ~raised.isNone

\* C1 (as stated): whenever classify_domain has returned after an exception,
\* the result has label "Error" and its error field is the exception message.
C1_ErrorIsTheMessage ==
    (pc = "returned" /\ Caught) => (result.label = "Error" /\ result.error = raised)

\* C1 (amended): whenever classify_domain has returned after an exception
\* of any stage, the result has label "Error" and its error field is the
\* first 500 characters of the exception message; every call ends in a
\* returned result with one of the five labels.
C1_ErrorIsTheTruncatedMessage ==
    /\ (pc = "returned" /\ Caught) =>
            (result.label = "Error" /\ result.error = Slice(raised, 500))
    /\ pc = "returned" => result.label \in NonErrorLabels \cup {"Error"}

\* an exception with a message longer than 500 characters was caught
C1_Witness ==
    pc = "returned" /\ Caught /\ raised.len > 500 /\ result.error.len = 500

\* C2: every returned result either has a non-error label and no error, or
\* label "Error" and a non-empty error string, and never both or neither.
C2_LabelXorError ==
    pc = "returned" =>
        ((result.label \in NonErrorLabels /\ ~Truthy(result.error))
            # (result.label = "Error" /\ Truthy(result.error)))

\* Stage 1 has returned a success with at least 5 navigation terms
Stage1Sufficient ==
    /\ pc \notin {"idle", "http"}
    /\ http_result.success
    /\ Len(http_result.nav_text) >= 5

\* C3 (as stated): when Stage 1 succeeded with at least 5 navigation terms,
\* the Browser Fetcher and the fallback fetcher are never invoked in the call.
C3_NoBrowserAtAll ==
    Stage1Sufficient =>
        (CountEv("pw:fetch") = 0 /\ CountEv("pw:call") = 0 /\ CountEv("fc:call") = 0)

\* C3 (amended): when Stage 1 succeeded with at least 5 navigation terms,
\* the retry ladder of Stage 2 and the fallback fetcher are never invoked;
\* the Browser Fetcher runs at most one single attempt, for a screenshot,
\* and only when vision is enabled and the text score is in the trigger range.
C3_NoEscalation ==
    Stage1Sufficient =>
        /\ CountEv("pw:call") = 0
        /\ CountEv("fc:call") = 0
        /\ CountEv("pw:fetch") <= 1
        /\ CountEv("shot:call") >= 1 =>
                (cfg.vision_enabled /\ InTriggerRange(text_score_data.text_score))
        /\ CountEv("pw:fetch") = CountEv("shot:return")

\* an accepted Stage 1 whose call fetched a screenshot with the browser
C3_Witness ==
    Stage1Sufficient /\ pc = "returned" /\ CountEv("pw:fetch") = 1

\* C4: the HTTP outcome is accepted as the working outcome exactly when the
\* fetch succeeded with at least 5 distinct navigation terms.
C4_AcceptedIffFiveDistinct ==
    pc \notin {"idle", "http", "after_http"} =>
        (CountEv("accept") = 1
            <=> (http_result.success /\ Cardinality(Range(http_result.nav_text)) >= 5))

\* Stage 2 ran its retry ladder and came back without success or screenshot
Stage2FailedCompletely ==
    CountEv("pw:return") = 1 /\ ~pw_result.success /\ pw_result.screenshot_bytes = "None"

\* C5: when Stage 1 failed, Stage 2 failed completely and there is no
\* fallback fetcher, the returned result has label "Error", no stage_used
\* and a non-empty error.
C5_ErrorWithMessage ==
    (pc = "returned" /\ ~http_result.success /\ Stage2FailedCompletely
        /\ ~cfg.firecrawl_fetcher) =>
        (result.label = "Error" /\ result.stage_used = "None" /\ Truthy(result.error))

\* the first attempt of the retry ladder met a challenge response
ChallengeFirst ==
    Len(trace.attempts) >= 1 /\ trace.attempts[1].challenge

\* C6: after a challenge response on the first Browser Fetcher
\* attempt, the call goes to the fallback fetcher when there is one and to a
\* terminal Error otherwise; the challenge outcome is never the working
\* outcome.
C6_ChallengeNeverScored ==
    (ChallengeFirst /\ pc \notin {"pw", "after_pw"}) =>
        /\ stage_used # "playwright"
        /\ IF cfg.firecrawl_fetcher THEN CountEv("fc:call") = 1
           ELSE pc = "returned" /\ result.label = "Error"

\* C7: in fetch_with_retries no attempt follows an attempt that detected a
\* challenge response: the number of fetch_domain calls is the index of the
\* first challenge attempt.
C7_ChallengeEndsTheLadder ==
    \A i \in 1..Len(trace.attempts) :
        trace.attempts[i].challenge =>
            /\ Len(trace.attempts) = i
            /\ CountEv("pw:fetch") = i
            /\ pc # "pw"

\* a ladder whose second attempt met the challenge
C7_Witness ==
    /\ Len(trace.attempts) = 2
    /\ ~trace.attempts[1].challenge
    /\ trace.attempts[2].challenge
    /\ pc = "returned"

\* C8: per call the fallback fetcher is invoked at most once, with at most
\* one scrape request, only when it is configured and Stage 2 returned
\* neither success nor screenshot; its failure ends the call with label
\* "Error" without a second request.
C8_FallbackOnce ==
    /\ CountEv("fc:call") <= 1
    /\ CountEv("fc:post") <= 1
    /\ CountEv("fc:call") = 1 => (cfg.firecrawl_fetcher /\ Stage2FailedCompletely)
    /\ (pc = "returned" /\ CountEv("fc:return") = 1 /\ ~fc_result.success) =>
            (result.label = "Error" /\ CountEv("fc:post") = 1
                /\ CountEv("score:call") = 0)

\* a failed scrape request that ended the call
C8_Witness ==
    /\ pc = "returned"
    /\ CountEv("fc:post") = 1
    /\ ~fc_result.success
    /\ fc_result.error = Str("Firecrawl API error: status", 24)

\* no stage of this call yielded a navigation term, a heading or a screenshot
NothingYielded ==
    /\ http_result.nav_text = <<>> /\ http_result.hero_text = <<>>
    /\ pw_result.nav_text = <<>> /\ pw_result.hero_text = <<>>
    /\ pw_result.screenshot_bytes = "None"
    /\ fc_result.nav_text = <<>> /\ fc_result.hero_text = <<>>

\* C9: a call in which no stage yielded a navigation term, a heading or a
\* screenshot returns label "Error" with no stage_used; every result with a
\* non-error label was scored from an outcome with at least one navigation
\* term, heading or screenshot.
C9_ScoredFromUsableOutput ==
    /\ (pc = "returned" /\ NothingYielded) =>
            (result.label = "Error" /\ result.stage_used = "None")
    /\ (pc = "returned" /\ result.label \in NonErrorLabels) =>
            \/ features.nav_text # <<>>
            \/ features.hero_text # <<>>
            \/ features.screenshot_bytes # "None"

\* the return event of the stage whose outcome is the working outcome
WorkingStageReturn ==
    CASE stage_used \in {"http", "http+vision"} -> "http:return"
      [] stage_used = "playwright" -> "pw:return"
      [] stage_used = "firecrawl" -> "fc:return"
      [] OTHER -> "http:return"

\* C10: the stages of one call run one after another: at most one stage is
\* in flight, Stage 2 starts after Stage 1 returned, Stage 3 after Stage 2
\* returned, scoring after the stage of the working outcome returned.
C10_StagesSequential ==
    /\ Cardinality(inflight) <= 1
    /\ Before("http:return", "pw:call")
    /\ Before("http:return", "shot:call")
    /\ Before("pw:return", "fc:call")
    /\ Before(WorkingStageReturn, "score:call")
    /\ Before("shot:call", "shot:return")
    /\ CountEv("shot:call") = 1 => Before("shot:return", "score:call")
    /\ pc = "pw" => inflight = {"pw"}
    /\ pc = "fc" => inflight = {"fc"}
    /\ pc = "http" => inflight = {"http"}

\* a call that went through all three fetch stages and was scored
C10_Witness ==
    /\ pc = "returned"
    /\ stage_used = "firecrawl"
    /\ CountEv("score:return") = 1
    /\ Pos("http:return") < Pos("pw:call")
    /\ Pos("pw:return") < Pos("fc:call")
    /\ Pos("fc:return") < Pos("score:call")

\* C11: every classify_domain call that has started eventually returns its
\* result, given that every external call returns or times out; the loops of
\* a call are bounded: at most 2 HTTP requests, max_retries browser
\* attempts, one scrape request and one vision request.
C11_Terminates ==
    /\ [](/\ CountEv("http:get") <= 2
          /\ CountEv("pw:fetch") <= max_retries
          /\ Len(trace.attempts) <= max_retries
          /\ CountEv("fc:post") <= 1
          /\ CountEv("vision:call") <= 1)
    /\ (pc # "idle") ~> (pc = "returned")

\* a call that returned after both schemes, three browser attempts, the
\* scrape request and the scoring
C11_Witness ==
    /\ pc = "returned"
    /\ CountEv("http:get") = 2
    /\ Len(trace.attempts) = max_retries
    /\ CountEv("pw:sleep") = 2
    /\ CountEv("fc:post") = 1
    /\ CountEv("score:return") = 1

\* every fetch stage of this call has failed: Stage 1 without success, Stage 2
\* without success or screenshot, and the fallback fetcher, when there is
\* one, without success
AllStagesFailed ==
    /\ CountEv("http:return") = 1
    /\ ~http_result.success
    /\ Stage2FailedCompletely
    /\ cfg.firecrawl_fetcher => (CountEv("fc:return") = 1 /\ ~fc_result.success)

\* C12: a call in which every fetch stage fails returns label "Error", in
\* the first call of a service as in the call after it; a call starts from
\* the same local state whatever the call before it left behind (only the
\* launched browser and the configuration outlive a call).
C12_ErrorOnEveryCall ==
    /\ (pc = "returned" /\ AllStagesFailed) =>
            (result.label = "Error" /\ result.stage_used = "None")
    /\ pc = "idle" =>
            /\ result = InitialResult
            /\ <<http_result, pw_result, fc_result>>
                    = <<HttpInitialResult, NoResult, FcInitialResult>>
            /\ <<features, stage_used, text_score_data>>
                    = <<NoFeatures, "None", NoTextScore>>

\* the second call of a service, with the browser of the first call, in
\* which all three stages failed
C12_Witness ==
    /\ pc = "returned"
    /\ calls = 2
    /\ browser = "launched"
    /\ cfg.firecrawl_fetcher
    /\ AllStagesFailed
    /\ result.label = "Error"

----------------------------------------------------------------------------
(* Properties of Scorer.classify                                           *)

\* a Scorer.classify call of its own has ended, by return or by exception
ScorerEnded == scorer.pc \in {"done", "raised"}

\* the vision model was asked and gave no score for any image / for the
\* screenshot
EveryVisionCallFailed ==
    /\ ScorerEnded
    /\ scorer.path \in {"images", "screenshot"}
    /\ scorer.calls > 0
    /\ scorer.scores = <<>>

\* the classification of the text score alone
TextOnlyClassification ==
    Classification(scorer.conf.stage_b_weights, scorer.conf.thresholds,
                   scorer.features, scorer.tsd, NoScore, 0)

\* C13: when vision is needed and the provider fails for every image or for
\* the screenshot, Scorer.classify returns without raising, with no vision
\* score, the text score as final score and the label of the text score.
C13_VisionFailureFallsBack ==
    EveryVisionCallFailed =>
        /\ scorer.pc = "done"
        /\ scorer.result.vision_score = NoScore
        /\ scorer.result.final_score = scorer.tsd.text_score
        /\ scorer.result.label = TextOnlyClassification.label

\* the condition of lines 80-89, written out for the arguments of the call
VisionCondition ==
    /\ scorer.conf.vision_enabled
    /\ scorer.conf.openai_client
    /\ \/ /\ FracLeq(Pct(scoring_config.stage_b_trigger_range[1]), scorer.tsd.text_score)
          /\ FracLeq(scorer.tsd.text_score,
                     Pct(scoring_config.stage_b_trigger_range[2]))
       \/ /\ Len(scorer.features.nav_text) < 5
          /\ Len(scorer.features.hero_text) < 3

\* C14: Scorer.classify asks the vision model only when vision is enabled, a
\* client is configured, and the text score lies in the trigger range (bounds
\* included) or text extraction failed (fewer than 5 navigation terms and
\* fewer than 3 headings); in every other case it makes no vision call and
\* the final score is the text score.
C14_VisionOnlyWhenNeeded ==
    /\ (scorer.calls > 0 \/ scorer.path # "none") => VisionCondition
    /\ (ScorerEnded /\ ~VisionCondition) =>
            /\ scorer.pc = "done"
            /\ scorer.calls = 0
            /\ scorer.result.vision_score = NoScore
            /\ scorer.result.final_score = scorer.tsd.text_score

\* a vision call for a text score on the upper bound of the trigger range,
\* with enough text on the page
C14_Witness ==
    /\ scorer.pc = "done"
    /\ scorer.calls > 0
    /\ scorer.tsd.text_score = Pct(scoring_config.stage_b_trigger_range[2])
    /\ Len(scorer.features.nav_text) >= 5
    /\ scorer.result.vision_score # NoScore

----------------------------------------------------------------------------
(* Properties of classify_domain: vision and the final score                *)

\* C15: in every result classify_domain returns, stage_used ends with
\* "+vision" exactly when a vision score was obtained (vision_score is not
\* None).
C15_VisionSuffixIffScore ==
    pc = "returned" =>
        (EndsWithVision(result.stage_used) <=> result.vision_score # NoScore)

\* (a*t + b*v) / 100 in lowest terms, for a and b in hundredths
Weighted(a, t, b, v) == Lowest(Frac(a * t.n * v.d + b * v.n * t.d, 100 * t.d * v.d))

\* C16: when Scorer.classify has a vision score v, the final score is
\* 0.1*t + 0.9*v if text extraction failed, whatever the configured weights,
\* and w_text*t + w_vision*v otherwise, for the text score t.
C16_FusionFormula ==
    (scorer.pc = "done" /\ scorer.result.vision_score # NoScore) =>
        LET t == scorer.tsd.text_score
            v == scorer.result.vision_score
            w == scorer.conf.stage_b_weights
            failed == Len(scorer.features.nav_text) < 5
                        /\ Len(scorer.features.hero_text) < 3
        IN Lowest(scorer.result.final_score)
                = IF failed THEN Weighted(10, t, 90, v)
                  ELSE Weighted(w.text, t, w.vision, v)

\* a fused score after a failed text extraction, under weights 0.3 / 0.7,
\* where the two formulas differ
C16_Witness ==
    /\ scorer.pc = "done"
    /\ scorer.result.vision_score = Pct(90)
    /\ scorer.tsd.text_score = Pct(0)
    /\ Len(scorer.features.nav_text) < 5 /\ Len(scorer.features.hero_text) < 3
    /\ scorer.conf.stage_b_weights = [text |-> 30, vision |-> 70]
    /\ Lowest(scorer.result.final_score) = Pct(81)

\* final >= h/100
AtLeast(final, h) == FracLeq(Pct(h), final)

\* C17: for thresholds pure >= leaning >= generalist, every classification
\* Scorer.classify returns carries exactly one of the four labels, the one
\* its final score has under the thresholds: "Pure Bodywear" from the pure
\* threshold up, "Bodywear Leaning" from the leaning threshold up to the pure
\* one, "Needs Review" from the generalist threshold up to the leaning one,
\* "Generalist" below; no classification is left without a label.
C17_ExactlyOneLabel ==
    scorer.pc = "done" =>
        LET f == scorer.result.final_score
            th == scorer.conf.thresholds
            l == scorer.result.label
        IN /\ th.pure_bodywear >= th.bodywear_leaning
           /\ th.bodywear_leaning >= th.generalist
           /\ l \in NonErrorLabels
           /\ l = "Pure Bodywear" <=> AtLeast(f, th.pure_bodywear)
           /\ l = "Bodywear Leaning" <=>
                (AtLeast(f, th.bodywear_leaning) /\ ~AtLeast(f, th.pure_bodywear))
           /\ l = "Needs Review" <=>
                (AtLeast(f, th.generalist) /\ ~AtLeast(f, th.bodywear_leaning))
           /\ l = "Generalist" <=> ~AtLeast(f, th.generalist)

\* a final score on the pure threshold, which equals the leaning threshold
C17_Witness ==
    /\ scorer.pc = "done"
    /\ scorer.conf.thresholds.pure_bodywear = scorer.conf.thresholds.bodywear_leaning
    /\ scorer.result.final_score = Pct(scorer.conf.thresholds.pure_bodywear)
    /\ scorer.result.label = "Pure Bodywear"

\* 0 <= f <= 1
InUnitInterval(f) == FracLeq(Frac(0, 1), f) /\ FracLeq(f, Frac(1, 1))

----------------------------------------------------------------------------
(* calculate_text_score on its own: any counts and penalty weight          *)

\* the largest match count a run starts from or reaches
MaxCount == 4

\* scoring.generalist_penalty_weight, in hundredths: none, the configured
\* one, 1.0 and one above 1
PenaltyWeights == {0, 50, 100, 250}

InitTextScore ==
    /\ UnitInit("textscore")
    /\ textscore \in {[TextIdle EXCEPT !.pc = "start", !.b = b, !.g = g, !.p = p] :
                        b \in 0..MaxCount, g \in 0..MaxCount, p \in PenaltyWeights}

\* lines 381-392: the score of a page with b bodywear and g generalist matches
TextScore_Calculate ==
    /\ textscore.pc = "start"
    /\ textscore' = [textscore EXCEPT
            !.pc = "scored",
            !.score = TextScoreOf(textscore.b, textscore.g, textscore.p)]
    /\ UNCHANGED OutsideTextScore

\* lines 347-392 for the same page with one more bodywear match
TextScore_MoreBodywear ==
    /\ textscore.pc = "scored"
    /\ textscore.b < MaxCount
    /\ textscore' = [textscore EXCEPT
            !.b = @ + 1,
            !.prev = textscore.score,
            !.last = "b",
            !.score = TextScoreOf(textscore.b + 1, textscore.g, textscore.p)]
    /\ UNCHANGED OutsideTextScore

\* lines 362-392 for the same page with one more generalist match
TextScore_MoreGeneralist ==
    /\ textscore.pc = "scored"
    /\ textscore.g < MaxCount
    /\ textscore' = [textscore EXCEPT
            !.g = @ + 1,
            !.prev = textscore.score,
            !.last = "g",
            !.score = TextScoreOf(textscore.b, textscore.g + 1, textscore.p)]
    /\ UNCHANGED OutsideTextScore

NextTextScore ==
    \/ TextScore_Calculate
    \/ TextScore_MoreBodywear
    \/ TextScore_MoreGeneralist

SpecTextScore == InitTextScore /\ [][NextTextScore]_vars

\* C19: for counts b, g >= 0 and a penalty weight p >= 0 the text score is
\* max(0, (b - p*g) / (b + g + 1)); it lies in [0, 1], and is strictly
\* positive when b >= 1 and g = 0.
C19_TextScoreFormula ==
    textscore.pc = "scored" =>
        LET b == textscore.b
            g == textscore.g
            p == textscore.p
            s == textscore.score
        IN /\ s.d > 0
           /\ IF 100 * b >= p * g
              THEN s.n * 100 * (b + g + 1) = (100 * b - p * g) * s.d
              ELSE s.n = 0
           /\ InUnitInterval(s)
           /\ (b >= 1 /\ g = 0) => s.n > 0

\* a page whose penalty outweighs its bodywear matches: the score is clamped
C19_Witness ==
    /\ textscore.pc = "scored"
    /\ textscore.b >= 1
    /\ 100 * textscore.b < textscore.p * textscore.g
    /\ textscore.score.n = 0

\* C20: for every penalty weight p >= 0 the text score does not decrease
\* when the bodywear count grows by one with the generalist count fixed, and
\* does not increase when the generalist count grows by one with the
\* bodywear count fixed.
C20_Monotonic ==
    /\ textscore.last = "b" => FracLeq(textscore.prev, textscore.score)
    /\ textscore.last = "g" => FracLeq(textscore.score, textscore.prev)

\* one more generalist match lowered a positive score
C20_Witness ==
    /\ textscore.last = "g"
    /\ textscore.b >= 1
    /\ textscore.p > 0
    /\ ~FracLeq(textscore.prev, textscore.score)

----------------------------------------------------------------------------
(* Properties of the fetchers                                              *)

\* the quadruple of an attempt summary or of a result, as numbers
Quality(success, shot, nav, hero) ==
    <<IF success THEN 1 ELSE 0, IF shot THEN 1 ELSE 0, nav, hero>>

\* q1 <= q2 in the lexicographic order
LexLeq(q1, q2) ==
    \/ q1 = q2
    \/ \E i \in 1..4 : q1[i] < q2[i] /\ \A j \in 1..(i - 1) : q1[j] = q2[j]

QualityOfAttempt(i) ==
    LET a == trace.attempts[i] IN Quality(a.success, a.screenshot, a.nav, a.hero)

\* fetch_with_retries has returned and none of its attempts succeeded
LadderFailed ==
    /\ CountEv("pw:return") = 1
    /\ Len(trace.attempts) >= 1
    /\ \A i \in 1..Len(trace.attempts) : ~trace.attempts[i].success

\* C21: when no attempt succeeds, the result fetch_with_retries returns is
\* the result of one of its attempts, maximal among all attempts made in the
\* order (success, has screenshot, navigation terms, headings), and the
\* earliest such attempt rather than the last one tried; an attempt with a
\* screenshot is never passed over for one without.
C21_BestAttemptReturned ==
    LadderFailed =>
        LET k == pw_result.attempt + 1
            q == Quality(pw_result.success, pw_result.screenshot_bytes # "None",
                         Len(pw_result.nav_text), Len(pw_result.hero_text))
        IN /\ k \in 1..Len(trace.attempts)
           /\ q = QualityOfAttempt(k)
           /\ \A i \in 1..Len(trace.attempts) : LexLeq(QualityOfAttempt(i), q)
           /\ \A i \in 1..(k - 1) : QualityOfAttempt(i) # q
           /\ (\E i \in 1..Len(trace.attempts) : trace.attempts[i].screenshot)
                => pw_result.screenshot_bytes # "None"

\* three failed attempts without a screenshot, the last of them a challenge
\* response: the first attempt is returned, not the last
C21_Witness ==
    /\ LadderFailed
    /\ Len(trace.attempts) = max_retries
    /\ trace.attempts[max_retries].challenge
    /\ ~trace.attempts[max_retries].screenshot
    /\ pw_result.attempt = 0
    /\ ~ContainsChallengePage(pw_result.error)

\* C22: fetch_with_retries makes at most max_retries (3) attempts; attempt k,
\* counted from 0, waits for the page-ready condition number k mod 3 of
\* (domcontentloaded, load, networkidle); a backoff sleep precedes every
\* attempt but the first; a successful attempt is the last attempt and its
\* result is what fetch_with_retries returns.
C22_RetryLadder ==
    CountEv("pw:call") = 1 =>
        LET n == Len(trace.attempts)
            ev == trace.events
            first == Pos("pw:fetch")
        IN /\ n <= max_retries
           /\ CountEv("pw:fetch") = n
           /\ \A k \in 0..(n - 1) :
                trace.attempts[k + 1].wait
                    = <<"domcontentloaded", "load", "networkidle">>[(k % 3) + 1]
           /\ \A j \in 1..Len(ev) :
                ev[j] = "pw:fetch" => (ev[j - 1] = "pw:sleep" <=> j # first)
           /\ \A j \in 1..Len(ev) :
                ev[j] = "pw:sleep" => (j < Len(ev) /\ ev[j + 1] = "pw:fetch")
           /\ \A i \in 1..(n - 1) : ~trace.attempts[i].success
           /\ (CountEv("pw:return") = 1 /\ n >= 1 /\ trace.attempts[n].success) =>
                (pw_result.success /\ pw_result.attempt = n - 1)

\* the second attempt succeeded, after one backoff sleep, waiting for "load"
C22_Witness ==
    /\ CountEv("pw:return") = 1
    /\ Len(trace.attempts) = 2
    /\ trace.attempts[2].success
    /\ trace.attempts[2].wait = "load"
    /\ CountEv("pw:sleep") = 1
    /\ pw_result.attempt = 1

----------------------------------------------------------------------------
(* HttpFetcher.fetch_domain on its own: any two answers of the site        *)

\* what one session.get of the run can come to: the answers of the service
\* run, more statuses, an exception without a message, and a 200 whose body
\* cannot be read
HttpFetchResponses ==
    HttpResponses
    \cup {[kind |-> "response", status |-> st, page |-> EmptyPage, msg |-> None] :
            st \in {404, 503}}
    \cup {[kind |-> "raise", status |-> 0, page |-> EmptyPage, msg |-> Str("", 0)]}
    \cup {[kind |-> "body_raise", status |-> 200, page |-> EmptyPage, msg |-> m] :
            m \in {Str("Response payload is not completed", 33),
                   Str("'utf-8' codec can't decode byte 0xff", 36)}}

\* the error message a request left in result['error'], None for none
ErrorOf(resp, i) ==
    CASE resp.kind = "timeout" -> TimeoutMsg(i)
      [] resp.kind \in {"raise", "body_raise"} -> resp.msg
      [] OTHER -> None

InitHttpFetch ==
    /\ UnitInit("httpfetch")
    /\ httpfetch = [HttpFetchIdle EXCEPT !.pc = "loop"]

\* lines 60-108: one pass of the loop over urls_to_try; lines 110-114 after
\* the last one
HttpFetch_Request ==
    /\ httpfetch.pc = "loop"
    /\ \E resp \in HttpFetchResponses :
        LET r == HttpTryUrl(httpfetch.result, resp, httpfetch.i)
            entry == [url |-> urls_to_try[httpfetch.i], status |-> resp.status,
                      parsed |-> r.success, error |-> ErrorOf(resp, httpfetch.i)]
        IN httpfetch' = [httpfetch EXCEPT
                !.result = r,
                !.log = Append(@, entry),
                !.i = IF HttpLoopEnds(r, httpfetch.i) THEN @ ELSE @ + 1,
                !.pc = IF HttpLoopEnds(r, httpfetch.i) THEN "returned" ELSE "loop"]
    /\ UNCHANGED OutsideHttpFetch

NextHttpFetch == HttpFetch_Request

SpecHttpFetch == InitHttpFetch /\ [][NextHttpFetch]_vars

\* the requests of the run that returned HTTP 200
Got200 == {j \in 1..Len(httpfetch.log) : httpfetch.log[j].status = 200}

\* the requests of the run whose 200 response was read and parsed
Parsed200 == {j \in 1..Len(httpfetch.log) : httpfetch.log[j].parsed}

\* C23 (as stated): fetch_domain requests https://domain first and
\* http://domain only if the https request did not return HTTP 200; it
\* returns success exactly when one of the requests returned 200; no request
\* follows a 200.
C23_HttpOnlyWithout200 ==
    /\ Len(httpfetch.log) >= 1 => httpfetch.log[1].url = "https://domain"
    /\ Len(httpfetch.log) >= 2 =>
            (httpfetch.log[2].url = "http://domain" /\ 1 \notin Got200)
    /\ Len(httpfetch.log) <= 2
    /\ httpfetch.pc = "returned" => (httpfetch.result.success <=> Got200 # {})
    /\ \A j \in Got200 : j = Len(httpfetch.log)

\* C23 (amended): fetch_domain requests https://domain first and
\* http://domain only if the https request did not give a 200 response that
\* was read and parsed; it returns success exactly when one of the requests
\* gave such a response; no request follows one.  A 200 whose body cannot be
\* read counts as a failed request.
C23_HttpOnlyWithoutParsed200 ==
    /\ Len(httpfetch.log) >= 1 => httpfetch.log[1].url = "https://domain"
    /\ Len(httpfetch.log) >= 2 =>
            (httpfetch.log[2].url = "http://domain" /\ 1 \notin Parsed200)
    /\ Len(httpfetch.log) <= 2
    /\ httpfetch.pc = "returned" =>
            /\ httpfetch.result.success <=> Parsed200 # {}
            /\ Len(httpfetch.log) = 2 \/ 1 \in Parsed200
    /\ \A j \in Parsed200 : j = Len(httpfetch.log) /\ j \in Got200

\* https answered 200 with a body that could not be read, http answered 200
C23_Witness ==
    /\ httpfetch.pc = "returned"
    /\ Got200 = {1, 2}
    /\ Parsed200 = {2}
    /\ httpfetch.result.success

\* C24: when neither scheme returns HTTP 200, fetch_domain returns
\* success = false with the first error message encountered as its error,
\* never a later one and never an empty one.
C24_FirstErrorKept ==
    (httpfetch.pc = "returned" /\ Got200 = {}) =>
        /\ ~httpfetch.result.success
        /\ Truthy(httpfetch.result.error)
        /\ \A j \in 1..Len(httpfetch.log) :
                (/\ Truthy(httpfetch.log[j].error)
                 /\ \A k \in 1..(j - 1) : ~Truthy(httpfetch.log[k].error))
                    => httpfetch.result.error = httpfetch.log[j].error

----------------------------------------------------------------------------
(* PlaywrightFetcher.fetch_domain on its own: its context and its page      *)

InitPwFetch ==
    /\ UnitInit("pwfetch")
    /\ pwfetch = [PwFetchIdle EXCEPT !.pc = "new_context"]

\* the jump to the finally block of lines 145-156 along exit path p
ToFinally(p) == [pwfetch EXCEPT !.pc = "finally_page", !.path = p]

\* lines 59-64: browser.new_context
PwFetch_NewContext ==
    /\ pwfetch.pc = "new_context"
    /\ \/ pwfetch' = [pwfetch EXCEPT !.pc = "new_page", !.context = "open",
                                     !.created = @ + 1]
       \/ pwfetch' = ToFinally("exception")
    /\ UNCHANGED OutsidePwFetch

\* line 66: context.new_page
PwFetch_NewPage ==
    /\ pwfetch.pc = "new_page"
    /\ \/ pwfetch' = [pwfetch EXCEPT !.pc = "goto_https", !.page = "open",
                                     !.created = @ + 1]
       \/ pwfetch' = ToFinally("exception")
    /\ UNCHANGED OutsidePwFetch

\* lines 72-96: page.goto(https://...): a challenge status returns early, an
\* exception leads to the http attempt
PwFetch_GotoHttps ==
    /\ pwfetch.pc = "goto_https"
    /\ \E status \in {200, 403, 0, -1} :
        pwfetch' = CASE status = 403 -> ToFinally("challenge")
                     [] status = -1 -> [pwfetch EXCEPT !.pc = "goto_http"]
                     [] OTHER -> [pwfetch EXCEPT !.pc = "page_work"]
    /\ UNCHANGED OutsidePwFetch

\* lines 97-108: page.goto(http://...)
PwFetch_GotoHttp ==
    /\ pwfetch.pc = "goto_http"
    /\ \/ pwfetch' = [pwfetch EXCEPT !.pc = "page_work"]
       \/ pwfetch' = ToFinally("both_failed")
    /\ UNCHANGED OutsidePwFetch

\* lines 110-143: screenshot, wait, modal dismissal, extraction; the attempt
\* succeeds, or an exception reaches the outer handler
PwFetch_PageWork ==
    /\ pwfetch.pc = "page_work"
    /\ \/ pwfetch' = ToFinally("success")
       \/ pwfetch' = ToFinally("exception")
    /\ UNCHANGED OutsidePwFetch

\* the page closes on its own (a crash, a script closing the window)
PwFetch_PageCloses ==
    /\ pwfetch.pc \in {"goto_https", "goto_http", "page_work"}
    /\ pwfetch.page = "open"
    /\ pwfetch' = [pwfetch EXCEPT !.page = "closed"]
    /\ UNCHANGED OutsidePwFetch

\* lines 147-151: page.close() when there is a page that is not closed;
\* a failure of the close is swallowed
PwFetch_FinallyPage ==
    /\ pwfetch.pc = "finally_page"
    /\ IF PageNeedsClose(pwfetch.page)
       THEN \E closes \in BOOLEAN :
                pwfetch' = [pwfetch EXCEPT
                    !.pc = "finally_context",
                    !.page_close = TRUE,
                    !.close_calls = @ + 1,
                    !.page = IF closes THEN "closed" ELSE "open"]
       ELSE pwfetch' = [pwfetch EXCEPT !.pc = "finally_context"]
    /\ UNCHANGED OutsidePwFetch

\* lines 152-158: context.close() when there is a context; a failure of the
\* close is swallowed; then the return
PwFetch_FinallyContext ==
    /\ pwfetch.pc = "finally_context"
    /\ IF pwfetch.context # "None"
       THEN \E closes \in BOOLEAN :
                pwfetch' = [pwfetch EXCEPT
                    !.pc = "returned",
                    !.context_close = TRUE,
                    !.close_calls = @ + 1,
                    !.context = IF closes THEN "closed" ELSE "open",
                    !.page = IF closes /\ pwfetch.page = "open" THEN "closed" ELSE @]
       ELSE pwfetch' = [pwfetch EXCEPT !.pc = "returned"]
    /\ UNCHANGED OutsidePwFetch

\* playwright_fetcher.py lines 271-278: the next attempt of the ladder, with
\* a fresh context
PwFetch_NextAttempt ==
    /\ pwfetch.pc = "returned"
    /\ pwfetch.path # "success"
    /\ pwfetch.attempt + 1 < max_retries
    /\ pwfetch' = [PwFetchIdle EXCEPT !.pc = "new_context",
                                      !.attempt = pwfetch.attempt + 1,
                                      !.created = pwfetch.created,
                                      !.close_calls = pwfetch.close_calls]
    /\ UNCHANGED OutsidePwFetch

NextPwFetch ==
    \/ PwFetch_NewContext
    \/ PwFetch_NewPage
    \/ PwFetch_GotoHttps
    \/ PwFetch_GotoHttp
    \/ PwFetch_PageWork
    \/ PwFetch_PageCloses
    \/ PwFetch_FinallyPage
    \/ PwFetch_FinallyContext
    \/ PwFetch_NextAttempt

SpecPwFetch == InitPwFetch /\ [][NextPwFetch]_vars

----------------------------------------------------------------------------
(* Worker: the polling loop, one run and its records                        *)

\* the records a run starts with
MaxRecords == 3

\* the indices of the records of the run with status st
RecordsWith(st) == {k \in 1..Len(worker.records) : worker.records[k] = st}

\* a record loop that does not look at should_stop
WorkerLoopGoesOn_IgnoresStop(w) == TRUE

\* worker.py line 88: while not self.should_stop
WorkerLoopGoesOn(w) == ~w.should_stop

\* the application has started; the database holds no run, or one pending run
\* with its uploaded records
InitWorker ==
    /\ UnitInit("worker")
    /\ worker \in
        {[WorkerIdle EXCEPT !.pc = "created"]}
        \cup {[WorkerIdle EXCEPT !.pc = "created", !.run_status = "PENDING",
                                 !.records = [k \in 1..n |-> "PENDING"],
                                 !.labels = [k \in 1..n |-> "None"],
                                 !.total_records = n,
                                 !.started = n > 0] :
                n \in 0..MaxRecords}

\* lines 31-34: run() starts
Worker_Run ==
    /\ worker.pc = "created"
    /\ worker' = [worker EXCEPT !.pc = "poll", !.is_running = TRUE]
    /\ UNCHANGED OutsideWorker

\* lines 36 and 45-47: the polling loop sees should_stop and run() ends
Worker_RunEnds ==
    /\ worker.pc = "poll"
    /\ worker.should_stop
    /\ worker' = [worker EXCEPT !.pc = "stopped", !.is_running = FALSE]
    /\ UNCHANGED OutsideWorker

\* lines 36-38 and 60-84: the poll finds no pending or running run, or takes
\* the run and marks a pending one as running
Worker_FindRun ==
    /\ worker.pc = "poll"
    /\ ~worker.should_stop
    /\ IF worker.run_status \in {"PENDING", "RUNNING"}
       THEN worker' = [worker EXCEPT !.pc = "records", !.run_status = "RUNNING"]
       ELSE worker' = [worker EXCEPT !.pc = "sleep"]
    /\ UNCHANGED OutsideWorker

\* lines 88 and 146-149: the record loop sees should_stop and
\* _process_next_run returns
Worker_LeaveRun ==
    /\ worker.pc = "records"
    /\ ~WorkerLoopGoesOn(worker)
    /\ worker' = [worker EXCEPT !.pc = "sleep", !.current = 0]
    /\ UNCHANGED OutsideWorker

\* lines 88-111: no pending record is left; the run is marked completed
Worker_CompleteRun ==
    /\ worker.pc = "records"
    /\ WorkerLoopGoesOn(worker)
    /\ RecordsWith("PENDING") = {}
    /\ worker' = [worker EXCEPT !.pc = "sleep", !.current = 0,
                                !.run_status = "COMPLETED"]
    /\ UNCHANGED OutsideWorker

\* lines 88-114 and 151-165: the next pending record is taken, marked
\* PROCESSING and committed; classify_domain is called
Worker_StartRecord ==
    /\ worker.pc = "records"
    /\ WorkerLoopGoesOn(worker)
    /\ RecordsWith("PENDING") # {}
    /\ LET k == CHOOSE j \in RecordsWith("PENDING") :
                    \A m \in RecordsWith("PENDING") : j <= m
       IN worker' = [worker EXCEPT
                !.pc = "classify",
                !.current = k,
                !.records[k] = "PROCESSING",
                !.started_late = @ \/ worker.should_stop]
    /\ UNCHANGED OutsideWorker

\* What the awaits of _process_record come to: classify_domain returns a
\* result with one of the four labels and no error, or with label 'Error' and
\* the error of the failed stage (a message, '' or None), or get_classifier
\* raises
ClassifyOutcomes ==
    {[kind |-> "result", label |-> l, error |-> None] : l \in NonErrorLabels}
    \cup {[kind |-> "result", label |-> "Error", error |-> e] :
            e \in {None, Str("", 0), Str("net::ERR_FAILED", 15)}}
    \cup {[kind |-> "raise", label |-> "None", error |-> Str("config not found", 16)]}

\* lines 201-214: _map_label
map_label(label_str) ==
    IF label_str \in NonErrorLabels \cup {"Error"} THEN label_str ELSE "Error"

\* line 181: COMPLETED if not result.get('error') else ERROR
RecordStatusOf(out) == IF Truthy(out.error) THEN "ERROR" ELSE "COMPLETED"

\* lines 161-199 and 114-133: classify_domain returns and the record gets its
\* label and its status, or an await raises and the record gets status ERROR
\* alone; the record is committed, then the run's progress
Worker_RecordDone ==
    /\ worker.pc = "classify"
    /\ \E out \in ClassifyOutcomes :
        LET st == IF out.kind = "raise" THEN "ERROR" ELSE RecordStatusOf(out)
            recs == [worker.records EXCEPT ![worker.current] = st]
        IN worker' = [worker EXCEPT
                !.pc = "records",
                !.records = recs,
                !.labels[worker.current] =
                    IF out.kind = "raise" THEN @ ELSE map_label(out.label),
                !.last = out.kind,
                !.processed_records =
                    Cardinality({k \in 1..Len(recs) : recs[k] \in {"COMPLETED", "ERROR"}})]
    /\ UNCHANGED OutsideWorker

\* line 41: the sleep between two polls ends
Worker_Wake ==
    /\ worker.pc = "sleep"
    /\ worker' = [worker EXCEPT !.pc = "poll"]
    /\ UNCHANGED OutsideWorker

\* lines 49-52: stop() is called while the worker waits at one of its awaits
\* (or has not started, or has ended)
Worker_Stop ==
    /\ worker.stop_call = "none"
    /\ worker.pc \in {"created", "classify", "sleep", "stopped"}
    /\ worker' = [worker EXCEPT !.should_stop = TRUE, !.stop_call = "waiting"]
    /\ UNCHANGED OutsideWorker

\* lines 54-58: stop() returns, when is_running is false or after its 60
\* one-second waits
Worker_StopReturns ==
    /\ worker.stop_call = "waiting"
    /\ worker.pc \in {"created", "classify", "sleep", "stopped"}
    /\ worker' = [worker EXCEPT !.stop_call =
                    IF worker.is_running THEN "gave_up" ELSE "returned"]
    /\ UNCHANGED OutsideWorker

NextWorker ==
    \/ Worker_Run
    \/ Worker_RunEnds
    \/ Worker_FindRun
    \/ Worker_LeaveRun
    \/ Worker_CompleteRun
    \/ Worker_StartRecord
    \/ Worker_RecordDone
    \/ Worker_Wake
    \/ Worker_Stop
    \/ Worker_StopReturns

SpecWorker == InitWorker /\ [][NextWorker]_vars

----------------------------------------------------------------------------
(* DomainClassifierV2.process_batch with its StreamingWriter, run and re-run *)
(* on the same input and the same output file                                *)

\* the runs of process_batch on the same output file
MaxRuns == 3

\* the input of every run
Domains == <<"a.com", "b.com", "c.com">>

\* the rows of the output file: a domain and whether finished_at is filled
Row(domain, finished_at) == [domain |-> domain, finished_at |-> finished_at]

\* a loader that counts every row of the file
load_completed_domains_AnyRow(file) == {file[k].domain : k \in 1..Len(file)}

\* output_writer.py lines 42-65: a row counts if it has a domain and a
\* finished_at value
load_completed_domains(file) ==
    {file[k].domain : k \in {j \in 1..Len(file) :
                                file[j].domain # "" /\ file[j].finished_at}}

\* main_v2.py line 281: [d for d in domains if not writer.is_completed(d)]
Filter(domains, done) ==
    LET F[k \in 0..Len(domains)] ==
            IF k = 0 THEN <<>>
            ELSE IF domains[k] \in done THEN F[k - 1]
                 ELSE Append(F[k - 1], domains[k])
    IN F[Len(domains)]

\* main_v2.py lines 294-295: if shutdown_flag: break
BatchBreaks(b) == b.shutdown_flag

\* output_writer.py lines 79-118: finished_at is filled in when the row lacks
\* it, the row is appended and synced, the domain counts as completed
write_row(b, domain) ==
    [b EXCEPT !.file = Append(@, Row(domain, TRUE)),
              !.completed_domains = @ \cup {domain}]

\* the output file does not exist, or an earlier version of the program left
\* a row without finished_at in it
InitBatch ==
    /\ UnitInit("batch")
    /\ \E file \in {<<>>} \cup {<<Row(Domains[k], FALSE)>> : k \in 1..Len(Domains)} :
        batch = [BatchIdle EXCEPT !.pc = "ready", !.file = file]

\* main_v2.py lines 272-291: a new process calls process_batch; the writer
\* loads the completed domains of the file and the input is filtered
Batch_Start ==
    /\ batch.pc \in {"ready", "interrupted", "returned"}
    /\ batch.runs < MaxRuns
    /\ LET done == load_completed_domains(batch.file)
       IN batch' = [batch EXCEPT
                !.pc = IF Filter(Domains, done) = <<>> THEN "returned" ELSE "loop",
                !.runs = @ + 1,
                !.completed_domains = done,
                !.domains_to_process = Filter(Domains, done),
                !.i = 1,
                !.shutdown_flag = FALSE,
                !.loaded = done,
                !.classified = {}]
    /\ UNCHANGED OutsideBatch

\* main_v2.py lines 45-49: the signal handler sets shutdown_flag
Batch_Signal ==
    /\ batch.pc \in {"loop", "classify"}
    /\ ~batch.shutdown_flag
    /\ batch' = [batch EXCEPT !.shutdown_flag = TRUE]
    /\ UNCHANGED OutsideBatch

\* lines 293-295 and 332: the loop ends, at the flag or at the end of the list
Batch_LoopEnds ==
    /\ batch.pc = "loop"
    /\ BatchBreaks(batch) \/ batch.i > Len(batch.domains_to_process)
    /\ batch' = [batch EXCEPT !.pc = "returned"]
    /\ UNCHANGED OutsideBatch

\* lines 293-311: the next domain is taken, its browser is launched and
\* classify_domain is called
Batch_NextDomain ==
    /\ batch.pc = "loop"
    /\ ~BatchBreaks(batch)
    /\ batch.i <= Len(batch.domains_to_process)
    /\ batch' = [batch EXCEPT
            !.pc = "classify",
            !.classified = @ \cup {batch.domains_to_process[batch.i]},
            !.started_late = @ \/ batch.shutdown_flag]
    /\ UNCHANGED OutsideBatch

\* lines 311-330: classify_domain returns its result and write_row appends
\* it, or it raises and write_error appends an Error row; both rows carry the
\* domain and a finished_at value
Batch_DomainDone ==
    /\ batch.pc = "classify"
    /\ batch' = [write_row(batch, batch.domains_to_process[batch.i]) EXCEPT
            !.pc = "loop", !.i = @ + 1]
    /\ UNCHANGED OutsideBatch

\* the process is killed, at the loop head or in the middle of a domain
Batch_Interrupt ==
    /\ batch.pc \in {"loop", "classify"}
    /\ batch' = [batch EXCEPT
            !.pc = "interrupted",
            !.lost = IF batch.pc = "classify"
                     THEN @ \cup {batch.domains_to_process[batch.i]}
                     ELSE @]
    /\ UNCHANGED OutsideBatch

NextBatch ==
    \/ Batch_Start
    \/ Batch_Signal
    \/ Batch_LoopEnds
    \/ Batch_NextDomain
    \/ Batch_DomainDone
    \/ Batch_Interrupt

SpecBatch == InitBatch /\ [][NextBatch]_vars

----------------------------------------------------------------------------
(* The two loops that observe a stop signal                                  *)

InitStop == InitWorker \/ InitBatch

NextStop == NextWorker \/ NextBatch

SpecStop == InitStop /\ [][NextStop]_vars

----------------------------------------------------------------------------
(* Properties of the terminal error                                          *)

\* C27: when every fetch stage of a call has failed, the returned error is
\* the error of the last stage attempted, the fallback fetcher's when there
\* is one and the Browser Fetcher's otherwise, and it is never longer than
\* 500 characters.
C27_LastStageErrorBounded ==
    (pc = "returned" /\ AllStagesFailed /\ ~Caught) =>
        /\ result.error = IF cfg.firecrawl_fetcher THEN fc_result.error
                          ELSE pw_result.error
        /\ result.error.len <= 500

----------------------------------------------------------------------------
(* Properties of process_batch under interruption                            *)

\* the rows of domain d in the output file that have a finished_at value
FinishedRows(d) ==
    {k \in 1..Len(batch.file) : batch.file[k].domain = d /\ batch.file[k].finished_at}

\* the input domains that have a finished row in the output file
Finished == {Domains[k] : k \in {j \in 1..Len(Domains) : FinishedRows(Domains[j]) # {}}}

\* the domain being classified, if any
InFlight == IF batch.pc = "classify" THEN {batch.domains_to_process[batch.i]} ELSE {}

----------------------------------------------------------------------------
(* PopupHandler.dismiss_all on its own                                       *)

\* the largest max_attempts a caller passes
MaxAttempts == 3

\* obstruction ratios and thresholds, in hundredths
Obstructions == {0, 25, 60}

Thresholds == {0, 25, 100}

\* what _dismiss_cmps returns: a provider name, 'generic' or None
CmpResults == {"None", "onetrust", "generic"}

\* a comparison that also takes an obstruction equal to the threshold
BelowThreshold_OrEqual(obstruction, threshold) == obstruction <= threshold

\* popup_handler.py line 93: obstruction < obstruction_threshold
BelowThreshold(obstruction, threshold) == obstruction < threshold

\* lines 49-68: dismiss_all is called
InitPopup ==
    /\ UnitInit("popup")
    /\ \E m \in 0..MaxAttempts, t \in Thresholds :
        popup = [PopupIdle EXCEPT !.pc = "loop", !.max_attempts = m,
                                  !.obstruction_threshold = t]

\* lines 70-99: one round.  _dismiss_cmps and _dismiss_newsletter_modals
\* return their results (their exceptions are caught inside them), Escape
\* is pressed, and _calculate_obstruction returns the measured ratio, or 0
\* when the measurement raises (lines 223-225)
Popup_Round ==
    /\ popup.pc = "loop"
    /\ popup.attempt < popup.max_attempts
    /\ \E cmp_result \in CmpResults, newsletter_result \in BOOLEAN,
          ratio \in Obstructions, measurement \in {"value", "raise"} :
        LET obstruction == IF measurement = "raise" THEN 0 ELSE ratio
            with_cmp == IF cmp_result # "None"
                        THEN Append(popup.methods_used, "cmp_" \o cmp_result)
                        ELSE popup.methods_used
            methods == IF newsletter_result
                       THEN Append(with_cmp, "newsletter_modal")
                       ELSE with_cmp
            cleared == BelowThreshold(obstruction, popup.obstruction_threshold)
        IN popup' = [popup EXCEPT
                !.attempts = popup.attempt + 1,
                !.cmp_dismissed = @ \/ cmp_result # "None",
                !.newsletter_dismissed = @ \/ newsletter_result,
                !.methods_used = methods,
                !.measured = Append(@, obstruction),
                !.obstruction_cleared = cleared,
                !.attempt = IF cleared THEN @ ELSE @ + 1,
                !.pc = IF cleared THEN "after_loop" ELSE "loop"]
    /\ UNCHANGED OutsidePopup

\* line 70: range(max_attempts) is exhausted
Popup_LoopEnds ==
    /\ popup.pc = "loop"
    /\ popup.attempt >= popup.max_attempts
    /\ popup' = [popup EXCEPT !.pc = "after_loop"]
    /\ UNCHANGED OutsidePopup

\* lines 101-106 and 227-259: the obstruction was not cleared;
\* _hide_stubborn_overlays runs its script, which hides the large overlays it
\* finds, and returns True, or False when the script raises
Popup_HideStubbornOverlays ==
    /\ popup.pc = "after_loop"
    /\ ~popup.obstruction_cleared
    /\ \E outcome \in {"some", "no_overlay", "raise"} :
        popup' = [popup EXCEPT
            !.pc = "returned",
            !.hide_calls = @ + 1,
            !.hidden = outcome,
            !.methods_used = IF outcome # "raise" THEN Append(@, "css_hide") ELSE @,
            !.obstruction_cleared = outcome # "raise"]
    /\ UNCHANGED OutsidePopup

\* lines 101-108: the obstruction was cleared in the loop; the report is
\* returned
Popup_Return ==
    /\ popup.pc = "after_loop"
    /\ popup.obstruction_cleared
    /\ popup' = [popup EXCEPT !.pc = "returned"]
    /\ UNCHANGED OutsidePopup

NextPopup ==
    \/ Popup_Round
    \/ Popup_LoopEnds
    \/ Popup_HideStubbornOverlays
    \/ Popup_Return

SpecPopup == InitPopup /\ [][NextPopup]_vars

\* the rounds whose measured obstruction was below the threshold
RoundsBelow ==
    {k \in 1..Len(popup.measured) : popup.measured[k] < popup.obstruction_threshold}

\* C29: dismiss_all runs at most max_attempts rounds; a round whose measured
\* obstruction is below the threshold is the last one; when the call returns,
\* the last-resort hide has been applied (once) if no round measured an
\* obstruction below the threshold, in which case all max_attempts rounds
\* were run, and has not been applied otherwise.
C29_RoundsAndLastResort ==
    /\ popup.attempts <= popup.max_attempts
    /\ Len(popup.measured) = popup.attempts
    /\ RoundsBelow \subseteq {popup.attempts}
    /\ popup.hide_calls = 1 => RoundsBelow = {}
    /\ popup.pc = "returned" =>
            /\ popup.hide_calls = (IF RoundsBelow = {} THEN 1 ELSE 0)
            /\ RoundsBelow = {} => popup.attempts = popup.max_attempts

\* of three rounds allowed, the first measured an obstruction equal to the
\* threshold and the second one below it: two rounds, no last-resort hide
C29_Witness ==
    /\ popup.pc = "returned"
    /\ popup.max_attempts = 3
    /\ popup.attempts = 2
    /\ popup.measured[1] = popup.obstruction_threshold
    /\ popup.measured[2] < popup.obstruction_threshold
    /\ popup.hide_calls = 0

----------------------------------------------------------------------------
(* The domain string of a classify_domain call                               *)

\* the longest domain string passed
MaxDomainLen == 3

\* the characters of a domain string: a blank, a lower-case and an upper-case
\* letter and the dot
Chars == {" ", "a", "A", "."}

DomainStrings == UNION {[1..n -> Chars] : n \in 1..MaxDomainLen}

\* str.lower, character by character
Lower(s) == [k \in 1..Len(s) |-> IF s[k] = "A" THEN "a" ELSE s[k]]

\* str.strip: the blanks at both ends are dropped
Strip(s) ==
    LET inside == {k \in 1..Len(s) : s[k] # " "}
    IN IF inside = {} THEN <<>>
       ELSE LET first == CHOOSE k \in inside : \A j \in inside : k <= j
                last == CHOOSE k \in inside : \A j \in inside : j <= k
            IN SubSeq(s, first, last)

\* the trimmed, lower-cased form of a domain string
Normalized(s) == Lower(Strip(s))

\* http_fetcher.py line 56: [f"https://{domain}", f"http://{domain}"]
UrlsToTry(domain) == <<<<"https://">> \o domain, <<"http://">> \o domain>>

\* classify_domain is called with a domain string
InitNaming ==
    /\ UnitInit("naming")
    /\ \E d \in DomainStrings : naming = [NamingIdle EXCEPT !.pc = "called", !.domain = d]

\* classifier_service.py lines 105-129 and http_fetcher.py lines 55-61: the
\* result is created with the domain as passed, and Stage 1 is called with it
\* and builds its URLs
Naming_FetchDomain ==
    /\ naming.pc = "called"
    /\ naming' = [naming EXCEPT !.pc = "fetching",
                                !.reported = naming.domain,
                                !.urls = UrlsToTry(naming.domain)]
    /\ UNCHANGED OutsideNaming

\* classifier_service.py lines 255-258: the result is returned
Naming_Return ==
    /\ naming.pc = "fetching"
    /\ naming' = [naming EXCEPT !.pc = "returned"]
    /\ UNCHANGED OutsideNaming

NextNaming ==
    \/ Naming_FetchDomain
    \/ Naming_Return

SpecNaming == InitNaming /\ [][NextNaming]_vars

\* C30: a classify_domain call requests the URLs of the trimmed, lower-cased
\* form of its domain string and reports that form as the domain of its
\* result.
C30_DomainNormalized ==
    naming.pc \in {"fetching", "returned"} =>
        /\ naming.urls = UrlsToTry(Normalized(naming.domain))
        /\ naming.reported = Normalized(naming.domain)

----------------------------------------------------------------------------
(* One attempt of PlaywrightFetcher.fetch_domain and of                      *)
(* Crawler.get_page_for_analysis, step by step                               *)

\* the steps that click in the page or read it
Manipulations == {"modal_dismissal", "age_gates", "dismiss_all", "extract"}

\* an order in which the page is cleared of overlays before the screenshot
StepAfter_DismissFirst(impl, step) ==
    CASE step = "navigated" -> "modal_dismissal"
      [] step = "modal_dismissal" -> "screenshot"
      [] step = "screenshot" -> "wait_for_selector"
      [] step = "wait_for_selector" -> IF impl = "fetcher" THEN "extract" ELSE "age_gates"
      [] step = "age_gates" -> "dismiss_all"
      [] OTHER -> "return"

\* playwright_fetcher.py lines 110-139: screenshot, wait_for_selector,
\* _safe_modal_dismissal, _extract_features_js; crawler.py lines 193-252:
\* screenshot, wait_for_selector, dismiss_age_gates, dismiss_all
StepAfter(impl, step) ==
    CASE step = "navigated" -> "screenshot"
      [] step = "screenshot" -> "wait_for_selector"
      [] step = "wait_for_selector" ->
            IF impl = "fetcher" THEN "modal_dismissal" ELSE "age_gates"
      [] step = "modal_dismissal" -> "extract"
      [] step = "age_gates" -> "dismiss_all"
      [] OTHER -> "return"

Step(name, ok) == [step |-> name, ok |-> ok]

\* an attempt of either implementation has created its page
InitCapture ==
    /\ UnitInit("capture")
    /\ \E impl \in {"fetcher", "crawler"} :
        capture = [CaptureIdle EXCEPT !.pc = "goto_https", !.impl = impl,
                                      !.page = "open"]

\* playwright_fetcher.py lines 72-108, crawler.py lines 178-233: page.goto
\* with https, and with http after an https exception.  The fetcher returns
\* early on a 403/503 https response after a screenshot; when both schemes
\* raise, the attempt fails without a navigation
Capture_Goto ==
    /\ capture.pc \in {"goto_https", "goto_http"}
    /\ \E status \in {200, 403, -1} :
        capture' =
            CASE status = -1 /\ capture.pc = "goto_https" ->
                    [capture EXCEPT !.pc = "goto_http"]
              [] status = -1 /\ capture.pc = "goto_http" ->
                    [capture EXCEPT !.pc = "returned",
                        !.outcome = [kind |-> "failed", screenshot_bytes |-> "None",
                                     page |-> "None"]]
              [] status = 403 /\ capture.pc = "goto_https" /\ capture.impl = "fetcher" ->
                    [capture EXCEPT !.pc = "challenge_screenshot"]
              [] OTHER ->
                    [capture EXCEPT !.pc = StepAfter(capture.impl, "navigated")]
    /\ UNCHANGED OutsideCapture

\* playwright_fetcher.py lines 88-92 and 110-119, crawler.py lines 186-194
\* and 212-220: page.screenshot; its failure is caught and logged
Capture_Screenshot ==
    /\ capture.pc \in {"screenshot", "challenge_screenshot"}
    /\ \E ok \in IF capture.page = "open" THEN BOOLEAN ELSE {FALSE} :
        capture' = [capture EXCEPT
            !.screenshot_bytes = IF ok THEN "jpeg" ELSE @,
            !.steps = Append(@, Step("screenshot", ok)),
            !.pc = IF capture.pc = "challenge_screenshot" THEN "return"
                   ELSE StepAfter(capture.impl, "screenshot")]
    /\ UNCHANGED OutsideCapture

\* playwright_fetcher.py lines 121-136, crawler.py lines 199-252: the steps
\* after the screenshot; each catches its own failure, on a closed page every
\* one of them fails
Capture_Step ==
    /\ capture.pc \in Manipulations \cup {"wait_for_selector"}
    /\ \E ok \in IF capture.page = "open" THEN BOOLEAN ELSE {FALSE} :
        capture' = [capture EXCEPT
            !.steps = Append(@, Step(capture.pc, ok)),
            !.pc = StepAfter(capture.impl, capture.pc)]
    /\ UNCHANGED OutsideCapture

\* the page closes on its own after the navigation (a click that closes the
\* window, a crash)
Capture_PageCloses ==
    /\ capture.pc \notin {"goto_https", "goto_http", "returned"}
    /\ capture.page = "open"
    /\ capture' = [capture EXCEPT !.page = "closed"]
    /\ UNCHANGED OutsideCapture

\* playwright_fetcher.py lines 92, 138 and 158: the result with its
\* screenshot_bytes; crawler.py lines 254-274: the page and the screenshot,
\* the screenshot alone when the page is closed, None when the page is closed
\* and there is no screenshot
Capture_Return ==
    /\ capture.pc = "return"
    /\ capture' = [capture EXCEPT
            !.pc = "returned",
            !.outcome =
                IF capture.impl = "crawler" /\ capture.page = "closed"
                THEN IF capture.screenshot_bytes # "None"
                     THEN [kind |-> "page_was_closed",
                           screenshot_bytes |-> capture.screenshot_bytes,
                           page |-> "None"]
                     ELSE [kind |-> "None", screenshot_bytes |-> "None", page |-> "None"]
                ELSE [kind |-> "result",
                      screenshot_bytes |-> capture.screenshot_bytes,
                      page |-> capture.page]]
    /\ UNCHANGED OutsideCapture

NextCapture ==
    \/ Capture_Goto
    \/ Capture_Screenshot
    \/ Capture_Step
    \/ Capture_PageCloses
    \/ Capture_Return

SpecCapture == InitCapture /\ [][NextCapture]_vars

\* the positions in the steps taken of the steps named in names
StepsAt(names) == {k \in 1..Len(capture.steps) : capture.steps[k].step \in names}

\* the screenshot of this attempt was captured
Captured == \E k \in StepsAt({"screenshot"}) : capture.steps[k].ok

\* C31: in an attempt whose navigation succeeded, the screenshot is taken
\* before the cookie-accept click, the age-gate and overlay dismissal and the
\* in-page extraction; a screenshot that was captured is in what the attempt
\* returns, whatever later step failed and whether or not the page closed.
C31_ScreenshotFirstAndKept ==
    /\ \A k \in StepsAt(Manipulations) : \E j \in StepsAt({"screenshot"}) : j < k
    /\ Captured => capture.screenshot_bytes = "jpeg"
    /\ (capture.pc = "returned" /\ Captured) =>
            capture.outcome.screenshot_bytes = "jpeg"
    /\ (capture.pc = "returned" /\ capture.outcome.kind = "result"
            /\ capture.steps # <<>>) =>
            capture.steps[1].step = "screenshot"

\* the crawler captured the screenshot, the page closed, the dismissals
\* failed, and the screenshot was returned without the page
C31_Witness ==
    /\ capture.pc = "returned"
    /\ capture.impl = "crawler"
    /\ Captured
    /\ \E k \in StepsAt({"dismiss_all"}) : ~capture.steps[k].ok
    /\ capture.outcome.kind = "page_was_closed"
    /\ capture.outcome.screenshot_bytes = "jpeg"

----------------------------------------------------------------------------
(* Properties of the vision stage of one Scorer.classify call                *)

\* C32: a Scorer.classify call sends at most images_per_domain images to the
\* vision model; the vision score it reports after analysing images is the
\* arithmetic mean of the scores obtained for them; the screenshot is
\* analysed only when there are no image urls, in one call.
C32_CapMeanAndExclusive ==
    /\ scorer.path = "images" =>
            /\ scorer.calls <= images_per_domain
            /\ scorer.features.image_urls # <<>>
    /\ scorer.path = "screenshot" =>
            /\ scorer.calls = 1
            /\ scorer.features.image_urls = <<>>
    /\ (scorer.pc = "done" /\ scorer.path = "images") =>
            scorer.result.vision_score =
                (IF scorer.scores = <<>> THEN NoScore ELSE Mean(scorer.scores))

----------------------------------------------------------------------------
(* ClassifierService._ensure_browser under concurrent classify_domain calls  *)

\* the classify_domain calls running at once on one service
MaxCallers == 3

Callers == 1..MaxCallers

\* the browsers launched so far, numbered in the order of their launch
Launched == 1..launcher.launched

\* the calls have been made; each is at line 125, before _ensure_browser
InitLauncher ==
    /\ UnitInit("launcher")
    /\ launcher = [LauncherIdle EXCEPT !.pcs = [c \in Callers |-> "called"]]

\* line 71: if self._browser is None; a call that finds a browser goes on to
\* its stages, the others reach the await of line 72
Ensure_Check(c) ==
    /\ launcher.pcs[c] = "called"
    /\ launcher' = [launcher EXCEPT
            !.pcs[c] = IF launcher.browser = 0 THEN "starting" ELSE "ready"]
    /\ UNCHANGED OutsideLauncher

\* line 72: async_playwright().start() returns and self._playwright is
\* assigned, or it raises into the handler of classify_domain
Ensure_Started(c) ==
    /\ launcher.pcs[c] = "starting"
    /\ \/ launcher' = [launcher EXCEPT !.pcs[c] = "launching", !.playwright = c]
       \/ launcher' = [launcher EXCEPT !.pcs[c] = "raised"]
    /\ UNCHANGED OutsideLauncher

\* lines 73-83: chromium.launch returns a new browser and self._browser is
\* assigned, or it raises
Ensure_Launched(c) ==
    /\ launcher.pcs[c] = "launching"
    /\ \/ launcher' = [launcher EXCEPT !.pcs[c] = "ready",
                                       !.launched = @ + 1,
                                       !.browser = launcher.launched + 1]
       \/ launcher' = [launcher EXCEPT !.pcs[c] = "raised"]
    /\ UNCHANGED OutsideLauncher

\* lines 85-89: close(), called when every call has returned, closes the
\* browser self._browser refers to
Close_Browser ==
    /\ launcher.close_pc = "idle"
    /\ \A c \in Callers : launcher.pcs[c] \in {"ready", "raised"}
    /\ launcher' = [launcher EXCEPT
            !.close_pc = "playwright",
            !.closed = IF launcher.browser # 0 THEN @ \cup {launcher.browser} ELSE @,
            !.browser = 0]
    /\ UNCHANGED OutsideLauncher

\* lines 90-93: close() stops the playwright self._playwright refers to
Close_Playwright ==
    /\ launcher.close_pc = "playwright"
    /\ launcher' = [launcher EXCEPT !.close_pc = "closed", !.playwright = 0]
    /\ UNCHANGED OutsideLauncher

NextLauncher ==
    \/ \E c \in Callers : Ensure_Check(c)
    \/ \E c \in Callers : Ensure_Started(c)
    \/ \E c \in Callers : Ensure_Launched(c)
    \/ Close_Browser
    \/ Close_Playwright

SpecLauncher == InitLauncher /\ [][NextLauncher]_vars

\* C33: however classify_domain calls interleave at the awaits of
\* _ensure_browser, at most one browser is launched per service, and after
\* close() every browser that was launched has been closed.
C33_OneBrowserAndAllClosed ==
    /\ launcher.launched <= 1
    /\ launcher.close_pc = "closed" => launcher.closed = Launched

----------------------------------------------------------------------------
(* Properties of the report of dismiss_all                                   *)

\* the methods named in the report
MethodsUsed == {popup.methods_used[k] : k \in 1..Len(popup.methods_used)}

\* C34: in the report dismiss_all returns, obstruction_cleared is true only
\* if a round measured an obstruction below the threshold or the last-resort
\* hide hid at least one overlay, and 'css_hide' is among the methods used
\* only if at least one overlay was hidden.
C34_ReportTruthful ==
    popup.pc = "returned" =>
        /\ popup.obstruction_cleared => (RoundsBelow # {} \/ popup.hidden = "some")
        /\ "css_hide" \in MethodsUsed => popup.hidden = "some"

----------------------------------------------------------------------------
(* The runs API and the worker on one event loop, with one run               *)

\* the times the process is killed and started again
MaxRestarts == 1

\* the worker is suspended at an await (or not running), so that the event
\* loop can run a request handler
WorkerSuspended == worker.pc \in {"created", "classify", "sleep", "stopped"}

\* the records of the run, and the domains of an upload that has not
\* committed yet
RecordsInSight == Len(worker.records) + worker.upload

\* n new records with status PENDING are added to the run
AddRecords(w, n) ==
    [w EXCEPT !.records = @ \o [k \in 1..n |-> "PENDING"],
              !.labels = @ \o [k \in 1..n |-> "None"]]

\* the application has started on an empty database
InitBackend ==
    /\ UnitInit("worker")
    /\ worker = [WorkerIdle EXCEPT !.pc = "created"]

\* runs_router.py lines 45-65: create_run
Api_CreateRun ==
    /\ WorkerSuspended
    /\ worker.run_status = "None"
    /\ worker' = [worker EXCEPT !.run_status = "PENDING", !.total_records = 0,
                                !.processed_records = 0]
    /\ UNCHANGED OutsideWorker

\* runs_router.py lines 78-91: upload_domains finds the run PENDING and
\* awaits file.read(); the file has n rows with a domain
Api_UploadReads ==
    /\ WorkerSuspended
    /\ worker.run_status = "PENDING"
    /\ worker.upload = 0
    /\ \E n \in 1..2 :
        /\ RecordsInSight + n <= MaxRecords
        /\ worker' = [worker EXCEPT !.upload = n]
    /\ UNCHANGED OutsideWorker

\* runs_router.py lines 92-138: the file was read; the records are added,
\* total_records is set to their number, and the session commits
Api_UploadCommits ==
    /\ WorkerSuspended
    /\ worker.upload > 0
    /\ worker' = [AddRecords(worker, worker.upload) EXCEPT
            !.total_records = worker.upload,
            !.upload = 0]
    /\ UNCHANGED OutsideWorker

\* runs_router.py lines 152-191: upload_domains_json with n domains and
\* blanks strings that are empty after strip(); total_records is set to the
\* length of the list
Api_UploadJson ==
    /\ WorkerSuspended
    /\ worker.run_status = "PENDING"
    /\ \E n \in 0..2, blanks \in 0..1 :
        /\ n + blanks >= 1
        /\ RecordsInSight + n <= MaxRecords
        /\ worker' = [AddRecords(worker, n) EXCEPT !.total_records = n + blanks]
    /\ UNCHANGED OutsideWorker

\* runs_router.py lines 194-224: start_run is accepted for a PENDING run with
\* total_records # 0; the status stays PENDING
Api_StartRun ==
    /\ WorkerSuspended
    /\ worker.run_status = "PENDING"
    /\ worker.total_records # 0
    /\ worker' = [worker EXCEPT !.started = TRUE]
    /\ UNCHANGED OutsideWorker

\* the process is killed and started again; the database keeps what was
\* committed, the new process has a new Worker and no request in flight
Worker_Kill ==
    /\ worker.restarts < MaxRestarts
    /\ worker' = [worker EXCEPT
            !.pc = "created", !.is_running = FALSE, !.should_stop = FALSE,
            !.current = 0, !.stop_call = "none", !.upload = 0,
            !.restarts = @ + 1]
    /\ UNCHANGED OutsideWorker

NextBackend ==
    \/ NextWorker
    \/ Api_CreateRun
    \/ Api_UploadReads
    \/ Api_UploadCommits
    \/ Api_UploadJson
    \/ Api_StartRun
    \/ Worker_Kill

SpecBackend == InitBackend /\ [][NextBackend]_vars

----------------------------------------------------------------------------
(* Properties of the run and its records                                     *)

\* C35: in every state of the worker and the database, across kills and
\* restarts of the process, the run has status COMPLETED only if none of its
\* records has status PENDING or PROCESSING.
C35_CompletedRunHasNoOpenRecord ==
    worker.run_status = "COMPLETED" =>
        RecordsWith("PENDING") \cup RecordsWith("PROCESSING") = {}

\* C36: after any sequence of uploads and worker steps, total_records is the
\* number of records of the run and processed_records does not exceed it (so
\* that progress_percentage does not exceed 100).
C36_TotalIsRecordCount ==
    worker.run_status # "None" =>
        /\ worker.total_records = Len(worker.records)
        /\ worker.processed_records <= worker.total_records

\* C37: the run goes from PENDING to RUNNING only after start_run has been
\* accepted for it, and a run without records is never RUNNING or COMPLETED.
C37_PickedUpOnlyAfterStart ==
    /\ [][(worker.run_status = "PENDING" /\ worker'.run_status = "RUNNING")
            => worker.started]_vars
    /\ [](worker.records = <<>> => worker.run_status \notin {"RUNNING", "COMPLETED"})

\* C38: whenever records are added to the run, the run is PENDING at that
\* moment.
C38_RecordsOnlyToPendingRun ==
    [][Len(worker'.records) > Len(worker.records) => worker.run_status = "PENDING"]_vars

\* C39: right after the worker has finished a record, the record has status
\* ERROR exactly if its label is Error, and status COMPLETED exactly if its
\* label is one of the four other labels.
C39_StatusMatchesLabel ==
    (worker.pc = "records" /\ worker.current # 0) =>
        /\ worker.records[worker.current] = "ERROR"
                <=> worker.labels[worker.current] = "Error"
        /\ worker.records[worker.current] = "COMPLETED"
                <=> worker.labels[worker.current] \in NonErrorLabels

====
